---- MODULE Spec2Model ----
(***************************************************************************)
(* Ingestion pipeline of estat-ingest-server: HTTP push -> EventCh ->      *)
(* collectLoop -> uploadCh -> uploadLoop -> S3Uploader / DLQManager.       *)
(*                                                                         *)
(* The repository holds two Manager sources.  Both are modelled; the       *)
(* variable `variant` says which one a behaviour runs:                     *)
(*   "legacy" : src/internal/worker/manager.go                             *)
(*   "drain"  : src/internal/server/handler.go (lines 335-608)             *)
(* It also holds two sources of the failure queue (dlq.go) that differ in  *)
(* pickOldest only; the variable `dlqSource` says which one runs:          *)
(*   "partial" : src/unnamed/part_004 (Readdirnames(1000))                 *)
(*   "full"    : src/internal/worker/timecache.go, lines 89-466 (ReadDir)  *)
(***************************************************************************)
EXTENDS Naturals, Integers, Sequences, FiniteSets, TLC

\* ------------------------------------------------------------------ bounds
MaxEvents  == 3   \* /collect requests that reach the push step
MaxRetries == 2   \* configured S3AppRetries ranges over 0..MaxRetries
MaxFail    == 2   \* failures the environment injects (PUT and encode)
MaxTime    == 2   \* last value of the cached clock (seconds)

\* -------------------------------------------------- configuration (scaled)
ChannelSize     == 2     \* cfg.ChannelSize
QueueSlots      == 1     \* value of cfg.UploadQueue in the pipeline runs
BatchSize       == 2     \* cfg.BatchSize
SizeBudget      == 1     \* value of cfg.DLQMaxSizeBytes in the pipeline runs, in units of one event's bytes
DLQMaxAge       == 500   \* cfg.DLQMaxAge, in milliseconds
Second          == 1000  \* time.Second, in milliseconds
ReplayPerRound  == 3     \* for i := 0; i < 3; i++ { ProcessOneCtx }
KScan           == 1000  \* Readdirnames(1000)
BackoffStart    == 200   \* 200 * time.Millisecond
BackoffCap      == 2000  \* 2 * time.Second

VARIABLES
    variant,        \* which Manager source runs
    S3AppRetries,   \* cfg.S3AppRetries
    UploadQueue,    \* cfg.UploadQueue
    maxPush,        \* number of /collect requests the environment issues
    DLQMaxSizeBytes,\* cfg.DLQMaxSizeBytes
    dlqSource,      \* which pickOldest source runs: "partial" or "full"
    scanK,          \* the n of Readdirnames(n)
    encSource,      \* which EncodeBatchJSONLGZ source runs: "zerocopy" or "copy"
    diskFaulty,     \* whether os.WriteFile of Save's data file can fail
    recycled,       \* per event: how often it was put back into pool.EventPool
    rejectPut,      \* events of rejected requests put back into pool.EventPool
    EventCh,        \* buffered channel of events (event = its acceptance number)
    evClosed,       \* close(m.EventCh) has happened
    uploadCh,       \* buffered channel of upload jobs (job = sequence of events)
    upClosed,       \* close(m.uploadCh) has happened
    batch,          \* collectLoop's local batch
    cpc,            \* collectLoop position
    timer,          \* collectLoop's flush timer: "armed", "fired" (value in timer.C), "idle"
    upc,            \* uploadLoop position
    job,            \* job held by processUploadCtx
    replayLeft,     \* remaining ProcessOneCtx calls of the current round
    call,           \* the running S3Uploader call
    cancelled,      \* m.ctx is done
    spc,            \* Manager.Shutdown position (the call that enters stopOnce.Do first)
    spc2,           \* position of a second Manager.Shutdown call
    http,           \* main.go: the http.Server and its /collect handlers in flight
    tc,             \* timecache.go: dtVal, hrVal, the refresher and a BuildS3Key call
    dir,            \* DLQ directory: entries in enumeration order
    dlqSizeBytes,   \* DLQManager.dlqSizeBytes
    metrics,        \* metrics.Metrics
    objects,        \* object store content
    now,            \* worker.Unix(): cached epoch seconds
    globalCounter,  \* file_util.go globalCounter
    injected,       \* failures injected so far
    hist            \* history: what happened to which event

vars == <<variant, S3AppRetries, UploadQueue, maxPush, DLQMaxSizeBytes, dlqSource, scanK,
          encSource, diskFaulty, tc,
          recycled, rejectPut, EventCh, evClosed, uploadCh, upClosed, batch, cpc,
          timer, upc, job, replayLeft, call, cancelled, spc, spc2, http,
          dir, dlqSizeBytes, metrics, objects, now, globalCounter, injected, hist>>

managerVars  == <<EventCh, evClosed, uploadCh, upClosed, batch, cpc, timer>>
uploaderVars == <<upc, job, replayLeft, call>>
fqVars       == <<dir, dlqSizeBytes>>
envVars      == <<now, injected>>
cfgVars      == <<variant, S3AppRetries, UploadQueue, maxPush, DLQMaxSizeBytes, dlqSource, scanK,
                   encSource, diskFaulty>>
poolVars     == <<recycled, rejectPut>>

\* ----------------------------------------------------------------- helpers
Min(a, b) == IF a < b THEN a ELSE b

Range(s) == {s[i] : i \in 1..Len(s)}

InsertAt(s, i, x) == SubSeq(s, 1, i - 1) \o <<x>> \o SubSeq(s, i, Len(s))

NoCall == [pc |-> "idle", kind |-> "none", attempt |-> 0, lastErr |-> "nil",
           backoff |-> 0, result |-> "nil", puts |-> 0, fails |-> 0, ok |-> FALSE,
           errs0 |-> 0, prefix |-> "none", name |-> <<0, 0>>, events |-> <<>>,
           sawCancel |-> FALSE]

Metrics0 == [HTTPRequestsTotal |-> 0, HTTPRequestsAcceptedTotal |-> 0,
             HTTPRequestsRejectedQueueFullTotal |-> 0,
             S3EventsStoredTotal |-> 0, S3PutErrorsTotal |-> 0,
             DLQEventsEnqueuedTotal |-> 0, DLQEventsReuploadedTotal |-> 0,
             DLQEventsDroppedTotal |-> 0, DLQFilesExpiredTotal |-> 0,
             DLQFilesCurrent |-> 0, DLQSizeBytes |-> 0]

\* the server listens, no /collect handler is running
\* hours of a day (KST) as far as the time cache's formats are followed
HoursPerDay == 2

\* kst.Format("2006-01-02") and kst.Format("15") of an instant given in hours
FormatDate(t) == t \div HoursPerDay
FormatHour(t) == t % HoursPerDay

\* seed(): dtVal and hrVal hold the formats of the same instant; `by` numbers the
\* refresh that stored a value (0 = seed), pc is update()'s position, kpc and kdt are
\* the position of a BuildS3Key call and the DT() it has read
seed(t) ==
    [wall |-> t, n |-> 0, pc |-> "idle",
     dtVal |-> [by |-> 0, v |-> FormatDate(t)],
     hrVal |-> [by |-> 0, v |-> FormatHour(t)],
     kpc |-> "idle", kdt |-> [by |-> 0, v |-> FormatDate(t)],
     keys |-> 0, key |-> [dt |-> [by |-> 0, v |-> FormatDate(t)],
                          hr |-> [by |-> 0, v |-> FormatHour(t)]]]

Http0 == [srv |-> "serving", inflight |-> 0, sentOnClosed |-> FALSE]

Hist0 == [handed |-> [e \in 1..MaxEvents |-> 0], order |-> <<>>,
          writeErrs |-> 0, partial |-> {},
          droppedEv |-> {}, evictedEv |-> {}, expiredEv |-> {}, savedEv |-> {},
          removedFiles |-> 0, saveCalls |-> 0, overRead |-> FALSE, raw |-> <<>>,
          names |-> <<>>,
          buf |-> [got |-> 0, encFails |-> 0, putEnc |-> 0, putProc |-> 0],
          save |-> [size |-> 0, n |-> 0, before |-> 0, left |-> 0, iters |-> 0,
                    ok |-> TRUE, cut |-> FALSE, persisted |-> FALSE]]

\* ------------------------------------------------------------ file_util.go
CounterMod == 1000000

NoName == <<0, 0>>

\* NextCounter: atomic.AddUint64(&globalCounter, 1) % 1_000_000
NextCounter(c) == (c + 1) % CounterMod

\* NewFilename: "<unix>_<instance>_<counter>.jsonl.gz", kept as <<unix, counter>>
NewFilename(sec, c) == <<sec, NextCounter(c)>>

\* sort.Strings order of two filenames of one instance (unix prefix of equal width)
NameLess(a, b) == a[1] < b[1] \/ (a[1] = b[1] /\ a[2] < b[2])

\* extractUnixFromFilename: the unix prefix, accepted only when > 0
extractUnixFromFilename(name) == [sec |-> name[1], ok |-> name[1] > 0]

\* ------------------------------------------------------------------ dlq.go
\* content of a data file: "jsonl" (gzip stream of JSON lines, what the encoder writes),
\* "notgzip" (no gzip header), "truncated" (gzip header and first JSON line readable,
\* the stream cut before its footer), "blankfirst" (gzip, first line blank, JSON after
\* it); content of a sidecar: "json" ({"num_events": num}) or "garbage"
DataEntry(name, events, content) ==
    [kind |-> "data", name |-> name, size |-> Len(events), events |-> events,
     content |-> content, num |-> 0]

\* what a failed os.WriteFile leaves of a data file: the first `written` bytes
PartialEntry(name, events, written) ==
    [kind |-> "data", name |-> name, size |-> written, events |-> events,
     content |-> "truncated", num |-> 0]

MetaEntry(name, n) ==
    [kind |-> "meta", name |-> name, size |-> 0, events |-> <<>>, content |-> "json",
     num |-> n]

\* a sidecar that json.Unmarshal rejects
GarbageMeta(name) ==
    [kind |-> "meta", name |-> name, size |-> 0, events |-> <<>>, content |-> "garbage",
     num |-> 0]

DataIdx(d, name) == {i \in 1..Len(d) : d[i].kind = "data" /\ d[i].name = name}
MetaIdx(d, name) == {i \in 1..Len(d) : d[i].kind = "meta" /\ d[i].name = name}

\* the entries os.Stat(dataPath) finds: a regular file or a directory of that name
StatIdx(d, name) == {i \in 1..Len(d) : d[i].kind \in {"data", "subdir"} /\ d[i].name = name}

DataFile(d, name) == d[CHOOSE i \in StatIdx(d, name) : TRUE]

\* os.Remove(dataPath); os.Remove(metaPath)
RemoveBoth(d, name) ==
    SelectSeq(d, LAMBDA e : e.name # name)

\* a file the directory held before the process started: a parked batch of unknown events
SeedEntry(name, size, content) ==
    [kind |-> "data", name |-> name, size |-> size, events |-> <<>>, content |-> content,
     num |-> 0]

\* a file whose name starts with '.'
HiddenEntry(name, size) ==
    [kind |-> "hidden", name |-> name, size |-> size, events |-> <<>>, content |-> "other",
     num |-> 0]

\* an empty subdirectory of the queue directory
SubdirEntry(name, size) ==
    [kind |-> "subdir", name |-> name, size |-> size, events |-> <<>>, content |-> "dir",
     num |-> 0]

DataFiles(d) == {i \in 1..Len(d) : d[i].kind = "data"}

RECURSIVE DataBytes(_)
DataBytes(d) ==
    IF d = <<>> THEN 0
    ELSE (IF Head(d).kind = "data" THEN Head(d).size ELSE 0) + DataBytes(Tail(d))

\* NewDLQManager's totals: directories are skipped, every other entry that is not a
\* sidecar is counted
RECURSIVE StartupBytes(_)
StartupBytes(d) ==
    IF d = <<>> THEN 0
    ELSE (IF Head(d).kind \notin {"meta", "subdir"} THEN Head(d).size ELSE 0)
         + StartupBytes(Tail(d))

StartupCount(d) == Cardinality({i \in 1..Len(d) : d[i].kind \notin {"meta", "subdir"}})

\* faulty variant of Orphan: the Stat of the data file is not consulted
OrphanNever(d, e) == FALSE

\* strings.HasSuffix(name, ".meta.json") and os.Stat of the data name says IsNotExist
Orphan(d, e) == e.kind = "meta" /\ StatIdx(d, e.name) = {}

\* NewDLQManager's scan of the directory: orphan sidecars are removed, sidecars are
\* skipped, every other regular entry adds its size and 1 to the totals
NewDLQManager(d) ==
    [dir   |-> SelectSeq(d, LAMBDA e : ~Orphan(d, e)),
     total |-> StartupBytes(d),
     count |-> StartupCount(d)]

\* faulty variant of ScanWindow: the whole directory is read whatever the source
ScanAll(d) == d

\* the entry names pickOldest reads: f.Readdirnames(1000) in part_004,
\* os.ReadDir (every entry) in the copy inside timecache.go
ScanWindow(d) ==
    IF dlqSource = "full" THEN d ELSE SubSeq(d, 1, Min(scanK, Len(d)))

\* pickOldest: read the entry names, drop sidecars and dotfiles, sort, take the first
pickOldest(d) ==
    LET names == ScanWindow(d)
        candidates == {names[i].name : i \in {j \in 1..Len(names) :
                           ~(names[j].kind = "meta" \/ names[j].kind = "hidden")}}
    IN  IF candidates = {} THEN NoName
        ELSE CHOOSE n \in candidates : \A o \in candidates : o = n \/ NameLess(n, o)

\* faulty variant of EvictRemove: only the sidecar is removed, the data file stays
EvictRemoveMetaOnly(d, name) ==
    SelectSeq(d, LAMBDA e : ~(e.name = name /\ e.kind = "meta"))

\* ensureCapacity's os.Remove(dataPath); os.Remove(metaPath)
EvictRemove(d, name) == RemoveBoth(d, name)

LoopFuel == 6   \* iterations of ensureCapacity's loop that are followed

\* the one element of a singleton set
Only(S) == CHOOSE x \in S : TRUE

\* faulty variant of Evict: the evicted file also counts as one dropped event
EvictCountsDropped(fq, oldest) ==
    LET f == DataFile(fq.dir, oldest)
    IN  [fq EXCEPT !.dir = EvictRemove(fq.dir, oldest),
                   !.size = fq.size - f.size,
                   !.m = [fq.m EXCEPT
                            !.DLQSizeBytes = fq.m.DLQSizeBytes - f.size,
                            !.DLQFilesCurrent = fq.m.DLQFilesCurrent - 1,
                            !.DLQFilesExpiredTotal = fq.m.DLQFilesExpiredTotal + 1,
                            !.DLQEventsDroppedTotal = fq.m.DLQEventsDroppedTotal + 1],
                   !.evicted = fq.evicted \cup Range(f.events),
                   !.removed = fq.removed + 1,
                   !.iters = fq.iters + 1,
                   !.over = fq.over \/ Len(ScanWindow(fq.dir)) > scanK]

\* one pass through the body of ensureCapacity's loop: the picked file is removed and
\* subtracted from the gauges
Evict(fq, oldest) ==
    LET f == DataFile(fq.dir, oldest)
    IN  [fq EXCEPT !.dir = EvictRemove(fq.dir, oldest),
                   !.size = fq.size - f.size,
                   !.m = [fq.m EXCEPT
                            !.DLQSizeBytes = fq.m.DLQSizeBytes - f.size,
                            !.DLQFilesCurrent = fq.m.DLQFilesCurrent - 1,
                            !.DLQFilesExpiredTotal = fq.m.DLQFilesExpiredTotal + 1],
                   !.evicted = fq.evicted \cup Range(f.events),
                   !.removed = fq.removed + 1,
                   !.iters = fq.iters + 1,
                   !.over = fq.over \/ Len(ScanWindow(fq.dir)) > scanK]

\* faulty variant of Fits: the incoming batch is not counted
FitsWithoutIncoming(curr, incoming) == curr <= DLQMaxSizeBytes

\* ensureCapacity's test: curr+incoming <= max
Fits(curr, incoming) == curr + incoming <= DLQMaxSizeBytes

\* ensureCapacity: evict oldest files until curr + incoming <= max.  fq.iters counts the
\* passes through the loop body; a call still looping after LoopFuel passes is cut off
\* and marked (fq.cut)
RECURSIVE ensureCapacity(_, _)
ensureCapacity(fq, incoming) ==
    IF DLQMaxSizeBytes <= 0 THEN [fq EXCEPT !.ok = TRUE]
    ELSE IF Fits(fq.size, incoming) THEN [fq EXCEPT !.ok = TRUE]
    ELSE IF fq.iters >= LoopFuel THEN [fq EXCEPT !.ok = FALSE, !.cut = TRUE]
    ELSE IF pickOldest(fq.dir) = NoName
         THEN [fq EXCEPT !.ok = FALSE,
                         !.over = fq.over \/ Len(ScanWindow(fq.dir)) > scanK]
         ELSE Only({ensureCapacity(next, incoming) :
                        next \in {Evict(fq, pickOldest(fq.dir))}})

\* faulty variant of DropCount: counts the dropped batch, not its events
DropCountPerBatch(m, numEvents) ==
    [m EXCEPT !.DLQEventsDroppedTotal = m.DLQEventsDroppedTotal + 1]

\* faulty variant of DropCount: the dropped events are also counted as enqueued
DropCountAlsoEnqueued(m, numEvents) ==
    [m EXCEPT !.DLQEventsDroppedTotal = m.DLQEventsDroppedTotal + numEvents,
              !.DLQEventsEnqueuedTotal = m.DLQEventsEnqueuedTotal + numEvents]

\* Save's accounting when capacity cannot be ensured
DropCount(m, numEvents) ==
    [m EXCEPT !.DLQEventsDroppedTotal = m.DLQEventsDroppedTotal + numEvents]

\* Save's accounting after the data file and the sidecar are written
SavedCount(m, size, numEvents) ==
    [m EXCEPT !.DLQSizeBytes = m.DLQSizeBytes + size,
              !.DLQFilesCurrent = m.DLQFilesCurrent + 1,
              !.DLQEventsEnqueuedTotal = m.DLQEventsEnqueuedTotal + numEvents]

\* number of Save calls whose os.WriteFile may fail in one run
MaxWriteFail == 1

\* if err := os.WriteFile(dataPath, data, 0o600); err != nil
WriteCanFail == diskFaulty /\ hist.writeErrs < MaxWriteFail

\* what the history keeps of one Save call
SaveRecord(size, numEvents, fq, persisted) ==
    [size |-> size, n |-> numEvents, before |-> Cardinality(DataFiles(dir)),
     left |-> Cardinality(DataFiles(fq.dir)), iters |-> fq.iters,
     ok |-> fq.ok, cut |-> fq.cut, persisted |-> persisted]

\* Save(data, numEvents): data is the encoded batch of `events`
Save(events, numEvents) ==
    LET size == Len(events)
        fq0  == [dir |-> dir, size |-> dlqSizeBytes, m |-> metrics, ok |-> FALSE,
                 evicted |-> {}, removed |-> 0, iters |-> 0, cut |-> FALSE,
                 over |-> FALSE]
        filename == NewFilename(now, globalCounter)
    IN  IF size = 0 \/ numEvents <= 0
        THEN UNCHANGED <<dir, dlqSizeBytes, metrics, globalCounter>>
             /\ hist' = [hist EXCEPT !.saveCalls = @ + 1]
        ELSE \E fq \in {ensureCapacity(fq0, size)} :
          IF ~fq.ok
          THEN /\ dir' = fq.dir
               /\ dlqSizeBytes' = fq.size
               /\ metrics' = DropCount(fq.m, numEvents)
               /\ UNCHANGED globalCounter
               /\ hist' = [hist EXCEPT !.saveCalls = @ + 1,
                                       !.evictedEv = @ \cup fq.evicted,
                                       !.removedFiles = @ + fq.removed,
                                       !.droppedEv = @ \cup Range(events),
                                       !.overRead = @ \/ fq.over,
                                       !.save = SaveRecord(size, numEvents, fq, FALSE)]
          ELSE \/ /\ WriteCanFail
                  /\ \/ dir' = fq.dir
                     \/ \E i \in 1..(Len(fq.dir) + 1) : \E written \in 0..(size - 1) :
                           dir' = InsertAt(fq.dir, i, PartialEntry(filename, events, written))
                  /\ dlqSizeBytes' = fq.size
                  /\ metrics' = fq.m
                  /\ globalCounter' = globalCounter + 1
                  /\ hist' = [hist EXCEPT !.saveCalls = @ + 1,
                                          !.evictedEv = @ \cup fq.evicted,
                                          !.removedFiles = @ + fq.removed,
                                          !.overRead = @ \/ fq.over,
                                          !.writeErrs = @ + 1,
                                          !.partial = @ \cup {filename},
                                          !.save = SaveRecord(size, numEvents, fq, FALSE)]
               \/ /\ \E i \in 1..(Len(fq.dir) + 1) : \E k \in 1..(Len(fq.dir) + 2) :
                        dir' = InsertAt(InsertAt(fq.dir, i, DataEntry(filename, events, "jsonl")),
                                        k, MetaEntry(filename, numEvents))
                  /\ dlqSizeBytes' = fq.size + size
                  /\ metrics' = SavedCount(fq.m, size, numEvents)
                  /\ globalCounter' = globalCounter + 1
                  /\ hist' = [hist EXCEPT !.saveCalls = @ + 1,
                                          !.evictedEv = @ \cup fq.evicted,
                                          !.removedFiles = @ + fq.removed,
                                          !.savedEv = @ \cup Range(events),
                                          !.overRead = @ \/ fq.over,
                                          !.save = SaveRecord(size, numEvents, fq, TRUE)]

\* ------------------------------------------------------------ s3_uploader.go
\* a call of UploadBytesWithRetryCtx ("bytes") or UploadFileWithRetryCtx ("file")
StartCall(kind, prefix, name, events, errs) ==
    [pc |-> "loop", kind |-> kind, attempt |-> 1, lastErr |-> "nil",
     backoff |-> BackoffStart, result |-> "nil", puts |-> 0, fails |-> 0, ok |-> FALSE,
     errs0 |-> errs, prefix |-> prefix, name |-> name, events |-> events,
     sawCancel |-> FALSE]

\* faulty variant of LoopCond: one attempt too many
LoopCondOffByOne(attempt) == attempt <= S3AppRetries + 1

\* for attempt := 1; attempt <= u.cfg.S3AppRetries; attempt++
LoopCond(attempt) == attempt <= S3AppRetries

\* select { case <-ctx.Done(): return ctx.Err(); default: }
CtxDone == cancelled

\* the value returned once the loop is over
LoopResult(c) == c.lastErr

\* putObject failed: lastErr = err; S3PutErrorsTotal++
PutFailed(m) == [m EXCEPT !.S3PutErrorsTotal = m.S3PutErrorsTotal + 1]

\* backoff *= 2, capped at 2 s
NextBackoff(b) == IF b * 2 > BackoffCap THEN BackoffCap ELSE b * 2

\* the body handed to putObject is an open directory: every read of it fails, so the
\* PUT can only take its failing branch (followed, like every failure, MaxFail times)
BodyUnreadable ==
    /\ call.kind = "file"
    /\ \E i \in 1..Len(dir) : dir[i].kind = "subdir" /\ dir[i].name = call.name

\* one pass through the head of the retry loop: loop condition, shutdown check, putObject
UpLoop ==
    /\ call.pc = "loop"
    /\ IF ~LoopCond(call.attempt)
       THEN /\ call' = [call EXCEPT !.pc = "ret", !.result = LoopResult(call)]
            /\ UNCHANGED <<objects, metrics, injected>>
       ELSE IF CtxDone
       THEN /\ call' = [call EXCEPT !.pc = "ret", !.result = "ctx", !.sawCancel = TRUE]
            /\ UNCHANGED <<objects, metrics, injected>>
       ELSE \/ /\ ~BodyUnreadable
               /\ call' = [call EXCEPT !.pc = "ret", !.result = "nil", !.ok = TRUE,
                                       !.puts = @ + 1]
               /\ objects' = {o \in objects : ~(o.prefix = call.prefix /\ o.name = call.name)}
                             \cup {[prefix |-> call.prefix, name |-> call.name,
                                    events |-> call.events]}
               /\ UNCHANGED <<metrics, injected>>
            \/ /\ injected < MaxFail
               /\ injected' = injected + 1
               /\ call' = [call EXCEPT !.pc = "backoff", !.lastErr = "put",
                                       !.puts = @ + 1, !.fails = @ + 1]
               /\ metrics' = PutFailed(metrics)
               /\ UNCHANGED objects
    /\ UNCHANGED <<cfgVars, tc, poolVars, managerVars, upc, job, replayLeft, cancelled, spc, spc2, http, fqVars,
                   now, globalCounter, hist>>

\* faulty variant of BackoffSelect: a plain sleep that does not watch the context
BackoffSleep == "timer"

\* the backoff select: ctx.Done() wins once the context is cancelled, time.After otherwise
BackoffSelect == IF CtxDone THEN "ctx" ELSE "timer"

\* select { case <-ctx.Done(): return ctx.Err(); case <-time.After(backoff): ... }
UpBackoff ==
    /\ call.pc = "backoff"
    /\ IF BackoffSelect = "ctx"
       THEN call' = [call EXCEPT !.pc = "ret", !.result = "ctx", !.sawCancel = TRUE]
       ELSE call' = [call EXCEPT !.pc = "loop", !.attempt = @ + 1,
                                 !.backoff = NextBackoff(call.backoff)]
    /\ UNCHANGED <<cfgVars, tc, poolVars, managerVars, upc, job, replayLeft, cancelled, spc, spc2, http, fqVars,
                   metrics, objects, envVars, globalCounter, hist>>

\* ------------------------------------------------------------------ handler.go
\* atomic.AddInt64(&h.metrics.HTTPRequestsTotal, 1)
RequestCount(m) == [m EXCEPT !.HTTPRequestsTotal = m.HTTPRequestsTotal + 1]

\* case h.worker.EventCh <- ev: HTTPRequestsAcceptedTotal++
AcceptCount(m) == [m EXCEPT !.HTTPRequestsAcceptedTotal = m.HTTPRequestsAcceptedTotal + 1]

\* faulty variant of RejectCount: the rejected request is counted as accepted too
RejectCountAlsoAccepted(m) ==
    [m EXCEPT !.HTTPRequestsRejectedQueueFullTotal = m.HTTPRequestsRejectedQueueFullTotal + 1,
              !.HTTPRequestsAcceptedTotal = m.HTTPRequestsAcceptedTotal + 1]

\* default: HTTPRequestsRejectedQueueFullTotal++
RejectCount(m) ==
    [m EXCEPT !.HTTPRequestsRejectedQueueFullTotal = m.HTTPRequestsRejectedQueueFullTotal + 1]

\* faulty variant of ChannelFull: the channel takes one event more than ChannelSize
ChannelFullLate == Len(EventCh) >= ChannelSize + 1

\* make(chan *model.Event, cfg.ChannelSize): a send finds no free slot
ChannelFull == Len(EventCh) >= ChannelSize

\* HandleCollect from the push step on: non-blocking send on EventCh
Push ==
    /\ spc = "idle"
    /\ metrics.HTTPRequestsTotal < maxPush
    /\ IF ~ChannelFull
       THEN /\ EventCh' = Append(EventCh, metrics.HTTPRequestsAcceptedTotal + 1)
            /\ metrics' = AcceptCount(RequestCount(metrics))
            /\ UNCHANGED rejectPut
       ELSE /\ metrics' = RejectCount(RequestCount(metrics))
            /\ rejectPut' = rejectPut + 1
            /\ UNCHANGED EventCh
    /\ UNCHANGED <<cfgVars, tc, recycled, evClosed, uploadCh, upClosed, batch, cpc, timer, uploaderVars,
                   cancelled, spc, spc2, http, fqVars, objects, envVars, globalCounter, hist>>

\* ------------------------------------------------------------- timecache.go
\* update(): the 1-second refresher stores the new epoch second
Tick ==
    /\ now < MaxTime
    /\ now' = now + 1
    /\ UNCHANGED <<cfgVars, tc, poolVars, managerVars, uploaderVars, cancelled, spc, spc2, http, fqVars, metrics,
                   objects, injected, globalCounter, hist>>

\* ------------------------------------------------------------------ manager.go
\* resetTimer: Stop, drain a stale fire, Reset(FlushInterval)
resetTimer == "armed"

\* time.NewTimer / Reset elapsed: the runtime puts a value in timer.C
TimerFire ==
    /\ timer = "armed"
    /\ timer' = "fired"
    /\ UNCHANGED <<cfgVars, tc, poolVars, EventCh, evClosed, uploadCh, upClosed, batch, cpc, uploaderVars,
                   cancelled, spc, spc2, http, fqVars, metrics, objects, envVars, globalCounter, hist>>

\* collectLoop, case ev, ok := <-m.EventCh with ok: append, flush at BatchSize
CollectRecv ==
    /\ cpc = "select"
    /\ EventCh # <<>>
    /\ EventCh' = Tail(EventCh)
    /\ batch' = Append(batch, Head(EventCh))
    /\ cpc' = IF Len(batch') >= BatchSize THEN "flush" ELSE "select"
    /\ UNCHANGED <<cfgVars, tc, poolVars, evClosed, uploadCh, upClosed, timer, uploaderVars, cancelled,
                   spc, spc2, http, fqVars, metrics, objects, envVars, globalCounter, hist>>

\* collectLoop, case <-m.EventCh with !ok: flush the rest and return
CollectClosed ==
    /\ cpc = "select"
    /\ EventCh = <<>>
    /\ evClosed
    /\ cpc' = "flushExit"
    /\ UNCHANGED <<cfgVars, tc, poolVars, EventCh, evClosed, uploadCh, upClosed, batch, timer,
                   uploaderVars, cancelled, spc, spc2, http, fqVars, metrics, objects, envVars,
                   globalCounter, hist>>

\* collectLoop, case <-timer.C: flush
CollectTimer ==
    /\ cpc = "select"
    /\ timer = "fired"
    /\ timer' = "idle"
    /\ cpc' = "flush"
    /\ UNCHANGED <<cfgVars, tc, poolVars, EventCh, evClosed, uploadCh, upClosed, batch, uploaderVars,
                   cancelled, spc, spc2, http, fqVars, metrics, objects, envVars, globalCounter, hist>>

\* collectLoop of manager.go only, case <-m.ctx.Done(): flush and return
CollectCtxDone ==
    /\ variant = "legacy"
    /\ cpc = "select"
    /\ CtxDone
    /\ cpc' = "flushExit"
    /\ UNCHANGED <<cfgVars, tc, poolVars, EventCh, evClosed, uploadCh, upClosed, batch, timer,
                   uploaderVars, cancelled, spc, spc2, http, fqVars, metrics, objects, envVars,
                   globalCounter, hist>>

\* where collectLoop goes when flush() returns
AfterFlush(pc) == IF pc = "flushExit" THEN "done" ELSE "select"

\* flush(): nothing to send
FlushEmpty == batch = <<>>

\* flush() returned: back to the select, or return (defer timer.Stop, close(uploadCh), wg.Done)
\* faulty variant of FreshBatch: the batch is not replaced after the send
FreshBatchKept(b) == b

\* flush(): batch = make([]*model.Event, 0, m.cfg.BatchSize), a new empty slice that
\* shares no storage with the job just sent
FreshBatch(b) == <<>>

FlushReturn(b, t, ch) ==
    /\ batch' = b
    /\ uploadCh' = ch
    /\ cpc' = AfterFlush(cpc)
    /\ upClosed' = (cpc = "flushExit")
    /\ timer' = IF cpc = "flushExit" THEN "idle" ELSE t

\* flush(): empty batch returns at once; otherwise a blocking send on uploadCh, a fresh
\* batch and resetTimer.  manager.go selects the send against ctx.Done() and, when the
\* context wins, returns with the batch as it is.
CollectFlush ==
    /\ cpc \in {"flush", "flushExit"}
    /\ \/ /\ FlushEmpty
          /\ FlushReturn(batch, timer, uploadCh)
       \/ /\ ~FlushEmpty
          /\ Len(uploadCh) < UploadQueue
          /\ FlushReturn(FreshBatch(batch), resetTimer, Append(uploadCh, batch))
       \/ /\ ~FlushEmpty
          /\ variant = "legacy"
          /\ CtxDone
          /\ FlushReturn(batch, timer, uploadCh)
    /\ UNCHANGED <<cfgVars, tc, poolVars, EventCh, evClosed, uploaderVars, cancelled, spc, spc2, http, fqVars, metrics,
                   objects, envVars, globalCounter, hist>>

\* history of EncodeBatchJSONLGZ's buffer: pool.BufferPool.Get on every call; PutBuffer
\* by the encoder when the encoding fails and, in the copying encoder, after the result
\* was copied out; the zero-copy encoder returns the pooled buffer to its caller
EncodeNote(b, ok) ==
    [b EXCEPT !.got = @ + 1,
              !.encFails = IF ok THEN @ ELSE @ + 1,
              !.putEnc = IF ok /\ encSource = "zerocopy" THEN @ ELSE @ + 1]

\* EncodeBatchJSONLGZ succeeded: NewFilename, BuildS3Key(RawPrefix), UploadBytesWithRetryCtx
\* EncodeBatchJSONLGZ failed: S3PutErrorsTotal++, raw bodies to BuildS3Key(DLQPrefix)
ProcessStart(j) ==
    /\ job' = j
    /\ LET handed == [hist EXCEPT !.order = @ \o j, !.handed =
                         [e \in 1..MaxEvents |-> IF e \in Range(j) THEN @[e] + 1 ELSE @[e]]]
       IN IF Len(j) = 0
          THEN /\ upc' = "replay"
               /\ replayLeft' = ReplayPerRound
               /\ hist' = handed
               /\ UNCHANGED <<call, metrics, globalCounter, injected>>
          ELSE /\ globalCounter' = globalCounter + 1
               /\ replayLeft' = 0
               /\ \/ /\ upc' = "upload"
                     /\ call' = StartCall("bytes", "raw", NewFilename(now, globalCounter), j,
                                          metrics.S3PutErrorsTotal)
                     /\ hist' = [handed EXCEPT !.buf = EncodeNote(@, TRUE)]
                     /\ UNCHANGED <<metrics, injected>>
                  \/ /\ injected < MaxFail
                     /\ injected' = injected + 1
                     /\ upc' = "encfail"
                     /\ metrics' = PutFailed(metrics)
                     /\ hist' = [handed EXCEPT !.buf = EncodeNote(@, FALSE)]
                     /\ call' = StartCall("bytes", "dlq", NewFilename(now, globalCounter), j,
                                          metrics'.S3PutErrorsTotal)

\* uploadLoop, case job, ok := <-m.uploadCh with ok: processUploadCtx up to the upload call
UploadRecv ==
    /\ upc = "select"
    /\ uploadCh # <<>>
    /\ uploadCh' = Tail(uploadCh)
    /\ ProcessStart(Head(uploadCh))
    /\ UNCHANGED <<cfgVars, tc, poolVars, EventCh, evClosed, upClosed, batch, cpc, timer, cancelled, spc, spc2, http,
                   fqVars, objects, now>>

\* uploadLoop, case <-m.uploadCh with !ok: return
UploadClosed ==
    /\ upc = "select"
    /\ uploadCh = <<>>
    /\ upClosed
    /\ upc' = "done"
    /\ UNCHANGED <<cfgVars, tc, poolVars, managerVars, job, replayLeft, call, cancelled, spc, spc2, http, fqVars,
                   metrics, objects, envVars, globalCounter, hist>>

\* uploadLoop of manager.go only, case <-m.ctx.Done(): return
UploadCtxDone ==
    /\ variant = "legacy"
    /\ upc = "select"
    /\ CtxDone
    /\ upc' = "done"
    /\ UNCHANGED <<cfgVars, tc, poolVars, managerVars, job, replayLeft, call, cancelled, spc, spc2, http, fqVars,
                   metrics, objects, envVars, globalCounter, hist>>

\* uploadLoop of handler.go, case <-ticker.C: a round of ProcessOneCtx calls
UploadTick ==
    /\ variant = "drain"
    /\ upc = "select"
    /\ upc' = "replay"
    /\ replayLeft' = ReplayPerRound
    /\ UNCHANGED <<cfgVars, tc, poolVars, managerVars, job, call, cancelled, spc, spc2, http, fqVars, metrics,
                   objects, envVars, globalCounter, hist>>

\* uploadLoop of manager.go, default: (nothing else ready) a round of ProcessOneCtx, then sleep
UploadIdle ==
    /\ variant = "legacy"
    /\ upc = "select"
    /\ ~CtxDone
    /\ uploadCh = <<>>
    /\ ~upClosed
    /\ upc' = "replay"
    /\ replayLeft' = ReplayPerRound
    /\ UNCHANGED <<cfgVars, tc, poolVars, managerVars, job, call, cancelled, spc, spc2, http, fqVars, metrics,
                   objects, envVars, globalCounter, hist>>

\* faulty variant of StoredCount: counts the stored object, not its events
StoredCountPerObject(m, n) == [m EXCEPT !.S3EventsStoredTotal = m.S3EventsStoredTotal + 1]

\* upload succeeded: S3EventsStoredTotal += len(job.Events)
StoredCount(m, n) == [m EXCEPT !.S3EventsStoredTotal = m.S3EventsStoredTotal + n]

\* faulty variant of RecycleEvents: every event is put into the pool twice
RecycleEventsTwice(r, events) ==
    [e \in DOMAIN r |-> IF e \in Range(events) THEN r[e] + 2 ELSE r[e]]

\* RecycleEvents: ResetEvent and EventPool.Put for each event of the job
RecycleEvents(r, events) ==
    [e \in DOMAIN r |-> IF e \in Range(events) THEN r[e] + 1 ELSE r[e]]

\* processUploadCtx after UploadBytesWithRetryCtx returned: err -> dlq.Save, nil -> stored;
\* RecycleEvents; then the loop's three ProcessOneCtx calls
ProcessFinish ==
    /\ upc = "upload"
    /\ call.pc = "ret"
    /\ IF call.result # "nil"
       THEN Save(job, Len(job))
       ELSE /\ metrics' = StoredCount(metrics, Len(job))
            /\ UNCHANGED <<dir, dlqSizeBytes, globalCounter, hist>>
    /\ upc' = "replay"
    /\ replayLeft' = ReplayPerRound
    /\ recycled' = RecycleEvents(recycled, job)
    /\ call' = NoCall
    /\ job' = <<>>
    /\ UNCHANGED <<cfgVars, tc, rejectPut, managerVars, cancelled, spc, spc2, http, objects, envVars>>

\* faulty variant of EncFailEnqueued: the batch is not counted
EncFailEnqueuedNot(m, n) == m

\* encoding-failure path: DLQEventsEnqueuedTotal += len(job.Events)
EncFailEnqueued(m, n) == [m EXCEPT !.DLQEventsEnqueuedTotal = m.DLQEventsEnqueuedTotal + n]

\* processUploadCtx, encoding-failure path after the best-effort upload returned
ProcessFinishEncFail ==
    /\ upc = "encfail"
    /\ call.pc = "ret"
    /\ metrics' = EncFailEnqueued(metrics, Len(job))
    /\ upc' = "replay"
    /\ replayLeft' = ReplayPerRound
    /\ recycled' = RecycleEvents(recycled, job)
    /\ call' = NoCall
    /\ job' = <<>>
    /\ UNCHANGED <<cfgVars, tc, rejectPut, managerVars, cancelled, spc, spc2, http, fqVars, objects, envVars,
                   globalCounter, hist>>

\* faulty variant of ReplayReturn: the loop goes on while calls take files
ReplayReturnUncounted ==
    /\ replayLeft' = replayLeft
    /\ upc' = "replay"
    /\ job' = job

\* ProcessOneCtx returned: next call of the round, or back to the loop's select
ReplayReturn ==
    /\ replayLeft' = replayLeft - 1
    /\ upc' = IF replayLeft - 1 = 0 THEN "select" ELSE "replay"
    /\ job' = job

\* ProcessOneCtx returned at its shutdown check or because pickOldest found nothing: the
\* remaining calls of the round find the same and return too
ReplayIdle ==
    /\ replayLeft' = 0
    /\ upc' = "select"
    /\ job' = job

\* faulty variant of Expired: the age in seconds is compared with MaxAge as it stands
ExpiredBySeconds(name) ==
    /\ DLQMaxAge > 0
    /\ extractUnixFromFilename(name).ok
    /\ (now - extractUnixFromFilename(name).sec) > DLQMaxAge

\* TTL test of ProcessOneCtx: age := time.Duration(nowSec-sec) * time.Second; age > DLQMaxAge
Expired(name) ==
    /\ DLQMaxAge > 0
    /\ extractUnixFromFilename(name).ok
    /\ (now - extractUnixFromFilename(name).sec) * Second > DLQMaxAge

\* accounting of a file removed by ProcessOneCtx (TTL branch)
ExpiredCount(m, size) ==
    [m EXCEPT !.DLQSizeBytes = m.DLQSizeBytes - size,
              !.DLQFilesCurrent = m.DLQFilesCurrent - 1,
              !.DLQFilesExpiredTotal = m.DLQFilesExpiredTotal + 1]

\* gzip.NewReader(f) accepts the header
GzipHeader(f) == f.content \in {"jsonl", "truncated", "blankfirst"}

\* bytes.TrimSpace of what reader.ReadBytes('\n') returns
FirstLine(f) == IF f.content = "blankfirst" THEN "" ELSE "object"

\* faulty variant of validateFile: every gzip file counts as valid
validateGzipOnly(f) == f.size > 0 /\ GzipHeader(f)

\* validateFile: size, gzip header, first line not blank and accepted by json.Unmarshal
validateFile(f) ==
    /\ f.size > 0
    /\ GzipHeader(f)
    /\ FirstLine(f) # ""
    /\ FirstLine(f) = "object"

\* history: a pickOldest call on the current directory read more than scanK entries
ReadNote(h) == [h EXCEPT !.overRead = @ \/ Len(ScanWindow(dir)) > scanK]

\* ProcessOneCtx up to the UploadFileWithRetryCtx call: shutdown check, pickOldest,
\* TTL, validateFile, key prefix
ReplayStart ==
    /\ upc = "replay"
    /\ replayLeft > 0
    /\ call.pc = "idle"
    /\ LET name == pickOldest(dir)
       IN  IF CtxDone
           THEN /\ ReplayIdle
                /\ UNCHANGED <<call, dir, dlqSizeBytes, metrics, hist>>
           ELSE IF name = NoName
           THEN /\ ReplayIdle
                /\ hist' = ReadNote(hist)
                /\ UNCHANGED <<call, dir, dlqSizeBytes, metrics>>
           ELSE LET f == DataFile(dir, name)
                IN  IF Expired(name)
                    THEN /\ dir' = RemoveBoth(dir, name)
                         /\ dlqSizeBytes' = dlqSizeBytes - f.size
                         /\ metrics' = ExpiredCount(metrics, f.size)
                         /\ hist' = [ReadNote(hist) EXCEPT
                                        !.expiredEv = @ \cup Range(f.events),
                                        !.removedFiles = @ + 1]
                         /\ ReplayReturn
                         /\ UNCHANGED call
                    ELSE /\ call' = StartCall("file", IF validateFile(f) THEN "raw" ELSE "dlq",
                                              name, f.events, metrics.S3PutErrorsTotal)
                         /\ hist' = ReadNote(hist)
                         /\ UNCHANGED <<upc, job, replayLeft, dir, dlqSizeBytes, metrics>>
    /\ UNCHANGED <<cfgVars, tc, poolVars, managerVars, cancelled, spc, spc2, http, objects, envVars, globalCounter>>

\* faulty variant of NumEvents: the sidecar's number is taken as it stands
NumEventsRaw(d, name) ==
    IF MetaIdx(d, name) # {} THEN d[CHOOSE i \in MetaIdx(d, name) : TRUE].num ELSE 1

\* num_events of the sidecar; 1 when it is missing, unparseable or not positive
NumEvents(d, name) ==
    IF /\ MetaIdx(d, name) # {}
       /\ d[CHOOSE i \in MetaIdx(d, name) : TRUE].content = "json"
       /\ d[CHOOSE i \in MetaIdx(d, name) : TRUE].num > 0
    THEN d[CHOOSE i \in MetaIdx(d, name) : TRUE].num
    ELSE 1

\* faulty variant of ReuploadedCount: the file-count gauge is not decremented
ReuploadedCountKeepsFile(m, size, n) ==
    [m EXCEPT !.DLQSizeBytes = m.DLQSizeBytes - size,
              !.DLQEventsReuploadedTotal = m.DLQEventsReuploadedTotal + n]

\* accounting of a replayed file
ReuploadedCount(m, size, n) ==
    [m EXCEPT !.DLQSizeBytes = m.DLQSizeBytes - size,
              !.DLQFilesCurrent = m.DLQFilesCurrent - 1,
              !.DLQEventsReuploadedTotal = m.DLQEventsReuploadedTotal + n]

\* faulty variant of ReplayErr: the error of the upload is ignored
ReplayErrIgnored(c) == FALSE

\* if err := d.uploader.UploadFileWithRetryCtx(...); err != nil
ReplayErr(c) == c.result # "nil"

\* ProcessOneCtx after UploadFileWithRetryCtx returned
ReplayFinish ==
    /\ upc = "replay"
    /\ call.pc = "ret"
    /\ IF ReplayErr(call)
       THEN UNCHANGED <<dir, dlqSizeBytes, metrics>>
       ELSE LET f == DataFile(dir, call.name)
            IN  /\ dir' = RemoveBoth(dir, call.name)
                /\ dlqSizeBytes' = dlqSizeBytes - f.size
                /\ metrics' = ReuploadedCount(metrics, f.size, NumEvents(dir, call.name))
    /\ call' = NoCall
    /\ ReplayReturn
    /\ UNCHANGED <<cfgVars, tc, poolVars, managerVars, cancelled, spc, spc2, http, objects, envVars, globalCounter,
                   hist>>

\* --------------------------------------------------------- Manager.Shutdown
\* manager.go: stopOnce.Do starts with m.cancel()
ShutdownCancelFirst ==
    /\ variant = "legacy"
    /\ spc = "idle"
    /\ cancelled' = TRUE
    /\ spc' = "closing"
    /\ UNCHANGED <<cfgVars, tc, poolVars, managerVars, uploaderVars, fqVars, metrics, objects, envVars,
                   globalCounter, hist, spc2, http>>

\* stopOnce.Do: close(m.EventCh)
ShutdownClose ==
    /\ \/ variant = "drain" /\ spc = "idle"
       \/ variant = "legacy" /\ spc = "closing"
    /\ evClosed' = TRUE
    /\ spc' = "waiting"
    /\ UNCHANGED <<cfgVars, tc, poolVars, EventCh, uploadCh, upClosed, batch, cpc, timer, uploaderVars,
                   cancelled, fqVars, metrics, objects, envVars, globalCounter, hist, spc2, http>>

\* both loops have called wg.Done
WaitReturns == cpc = "done" /\ upc = "done"

\* m.wg.Wait() returns; handler.go then calls m.cancel(); Shutdown returns
ShutdownReturn ==
    /\ spc = "waiting"
    /\ WaitReturns
    /\ cancelled' = (cancelled \/ variant = "drain")
    /\ spc' = "returned"
    /\ UNCHANGED <<cfgVars, tc, poolVars, managerVars, uploaderVars, fqVars, metrics, objects, envVars,
                   globalCounter, hist, spc2, http>>

\* faulty variant of OnceDone: the Once never reports that its function has run
OnceDoneNever == FALSE

\* stopOnce: the function of the first Do call has returned
OnceDone == spc \in {"waiting", "returned"}

\* a second Shutdown call (main and the signal goroutine both call it) reaches
\* stopOnce.Do after the first call entered it: Do blocks while the function of the
\* first call runs, and skips the function once it has run
ShutdownAgainOnce ==
    /\ spc2 = "idle"
    /\ spc \notin {"idle", "closing"}
    /\ IF OnceDone
       THEN /\ spc2' = "waiting"
            /\ UNCHANGED <<evClosed, cancelled>>
       ELSE IF evClosed
       THEN /\ spc2' = "panic"
            /\ UNCHANGED <<evClosed, cancelled>>
       ELSE /\ evClosed' = TRUE
            /\ cancelled' = (cancelled \/ variant = "legacy")
            /\ spc2' = "waiting"
    /\ UNCHANGED <<cfgVars, tc, poolVars, EventCh, uploadCh, upClosed, batch, cpc, timer, uploaderVars,
                   spc, http, fqVars, metrics, objects, envVars, globalCounter, hist>>

\* m.wg.Wait() of the second call returns; handler.go then calls m.cancel() again
ShutdownAgainReturn ==
    /\ spc2 = "waiting"
    /\ WaitReturns
    /\ cancelled' = (cancelled \/ variant = "drain")
    /\ spc2' = "returned"
    /\ UNCHANGED <<cfgVars, tc, poolVars, managerVars, uploaderVars, fqVars, metrics, objects, envVars,
                   globalCounter, hist, spc, http>>

\* ----------------------------------------------------------- specification
Init ==
    /\ variant \in {"drain", "legacy"}
    /\ S3AppRetries \in 0..MaxRetries
    /\ UploadQueue = QueueSlots
    /\ maxPush = MaxEvents
    /\ DLQMaxSizeBytes = SizeBudget
    /\ dlqSource = "partial"
    /\ scanK = KScan
    /\ encSource = "zerocopy"
    /\ diskFaulty = FALSE
    /\ recycled = [e \in 1..MaxEvents |-> 0]
    /\ rejectPut = 0
    /\ EventCh = <<>>
    /\ evClosed = FALSE
    /\ uploadCh = <<>>
    /\ upClosed = FALSE
    /\ batch = <<>>
    /\ cpc = "select"
    /\ timer = "armed"
    /\ upc = "select"
    /\ job = <<>>
    /\ replayLeft = 0
    /\ call = NoCall
    /\ cancelled = FALSE
    /\ spc = "idle"
    /\ spc2 = "idle"
    /\ http = Http0
    /\ tc = seed(0)
    /\ dir = <<>>
    /\ dlqSizeBytes = 0
    /\ metrics = Metrics0
    /\ objects = {}
    /\ now = 1
    /\ globalCounter = 0
    /\ injected = 0
    /\ hist = Hist0

Next ==
    \/ Push
    \/ Tick
    \/ TimerFire
    \/ CollectRecv
    \/ CollectClosed
    \/ CollectTimer
    \/ CollectCtxDone
    \/ CollectFlush
    \/ UploadRecv
    \/ UploadClosed
    \/ UploadCtxDone
    \/ UploadTick
    \/ UploadIdle
    \/ ProcessFinish
    \/ ProcessFinishEncFail
    \/ UpLoop
    \/ UpBackoff
    \/ ReplayStart
    \/ ReplayFinish
    \/ ShutdownCancelFirst
    \/ ShutdownClose
    \/ ShutdownReturn

Spec == Init /\ [][Next]_vars

\* ------------------------------------------------ backpressure scenario
ScenarioPushes == 5   \* requests of the scenario

\* flush() on an unbuffered uploadCh: the send completes only together with uploadLoop's
\* receive; processUploadCtx then runs up to its uploader call
FlushHandoff ==
    /\ cpc \in {"flush", "flushExit"}
    /\ ~FlushEmpty
    /\ UploadQueue = 0
    /\ upc = "select"
    /\ FlushReturn(FreshBatch(batch), resetTimer, uploadCh)
    /\ ProcessStart(batch)
    /\ UNCHANGED <<cfgVars, tc, poolVars, EventCh, evClosed, cancelled, spc, spc2, http, fqVars, objects, now>>

\* Manager started with UploadQueue = 0; the uploader call never returns
InitBackpressure ==
    /\ variant \in {"drain", "legacy"}
    /\ S3AppRetries = MaxRetries
    /\ UploadQueue = 0
    /\ maxPush = ScenarioPushes
    /\ DLQMaxSizeBytes = SizeBudget
    /\ dlqSource = "partial"
    /\ scanK = KScan
    /\ encSource = "zerocopy"
    /\ diskFaulty = FALSE
    /\ recycled = [e \in 1..MaxEvents |-> 0]
    /\ rejectPut = 0
    /\ EventCh = <<>>
    /\ evClosed = FALSE
    /\ uploadCh = <<>>
    /\ upClosed = FALSE
    /\ batch = <<>>
    /\ cpc = "select"
    /\ timer = "armed"
    /\ upc = "select"
    /\ job = <<>>
    /\ replayLeft = 0
    /\ call = NoCall
    /\ cancelled = FALSE
    /\ spc = "idle"
    /\ spc2 = "idle"
    /\ http = Http0
    /\ tc = seed(0)
    /\ dir = <<>>
    /\ dlqSizeBytes = 0
    /\ metrics = Metrics0
    /\ objects = {}
    /\ now = 1
    /\ globalCounter = 0
    /\ injected = 0
    /\ hist = Hist0

NextBackpressure ==
    \/ Push
    \/ TimerFire
    \/ CollectRecv
    \/ CollectTimer
    \/ CollectFlush
    \/ FlushHandoff

SpecBackpressure == InitBackpressure /\ [][NextBackpressure]_vars

\* -------------------------------------------------- runs with two Shutdown calls
NextTwice ==
    \/ Next
    \/ ShutdownAgainOnce
    \/ ShutdownAgainReturn

SpecTwice == Init /\ [][NextTwice]_vars

\* ------------------------------------------------------- failure-queue runs
MaxSeed  == 3   \* entries the directory holds when the process starts
FQEvents == 2   \* events that reach the upload task in these runs
SmallK   == 2   \* the 1000 of Readdirnames(1000), scaled to the seeded directories
FQBudget == 2   \* cfg.DLQMaxSizeBytes ranges over 1..FQBudget

\* what a directory can hold at startup: a parked batch whose sidecar says 2 or 0 events,
\* a second data file that is damaged in one of three ways, with an unreadable sidecar,
\* and a dotfile
SeedEntries ==
    {SeedEntry(<<1, 101>>, 1, "jsonl"), MetaEntry(<<1, 101>>, 2), MetaEntry(<<1, 101>>, 0),
     SeedEntry(<<1, 102>>, 1, "notgzip"), SeedEntry(<<1, 102>>, 1, "truncated"),
     SeedEntry(<<1, 102>>, 1, "blankfirst"), GarbageMeta(<<1, 102>>),
     HiddenEntry(<<0, 1>>, 1)}

\* directories as NewDLQManager leaves them: any enumeration order, no orphan sidecar
SeedDirs ==
    {d \in UNION {[1..n -> SeedEntries] : n \in 0..MaxSeed} :
        /\ \A i, j \in 1..Len(d) : (d[i].kind = d[j].kind /\ d[i].name = d[j].name) => i = j
        /\ \A i \in 1..Len(d) : d[i].kind = "meta" => DataIdx(d, d[i].name) # {}}

\* collectLoop's flush() handed a batch of n accepted events to uploadLoop, which runs
\* processUploadCtx up to its uploader call
BatchArrives ==
    /\ upc = "select"
    /\ \E n \in 1..BatchSize :
          /\ metrics.HTTPRequestsTotal + n <= maxPush
          /\ LET first == metrics.HTTPRequestsAcceptedTotal
                 m0 == [metrics EXCEPT !.HTTPRequestsTotal = @ + n,
                                       !.HTTPRequestsAcceptedTotal = @ + n]
                 j  == [i \in 1..n |-> first + i]
                 handed == [hist EXCEPT !.order = @ \o j, !.handed =
                               [e \in 1..MaxEvents |-> IF e \in Range(j) THEN @[e] + 1 ELSE @[e]]]
             IN  /\ job' = j
                 /\ globalCounter' = globalCounter + 1
                 /\ replayLeft' = 0
                 /\ \/ /\ upc' = "upload"
                       /\ metrics' = m0
                       /\ call' = StartCall("bytes", "raw", NewFilename(now, globalCounter), j,
                                            m0.S3PutErrorsTotal)
                       /\ hist' = [handed EXCEPT !.buf = EncodeNote(@, TRUE)]
                       /\ UNCHANGED injected
                    \/ /\ injected < MaxFail
                       /\ injected' = injected + 1
                       /\ upc' = "encfail"
                       /\ metrics' = PutFailed(m0)
                       /\ hist' = [handed EXCEPT !.buf = EncodeNote(@, FALSE)]
                       /\ call' = StartCall("bytes", "dlq", NewFilename(now, globalCounter), j,
                                            metrics'.S3PutErrorsTotal)
    /\ UNCHANGED <<cfgVars, tc, poolVars, managerVars, cancelled, spc, spc2, http, fqVars, objects, now>>

\* NewDLQManager ran on a directory of dirs; the Manager of handler.go is started
InitFQOn(dirs) ==
    /\ variant = "drain"
    /\ S3AppRetries = 1
    /\ UploadQueue = QueueSlots
    /\ maxPush = FQEvents
    /\ DLQMaxSizeBytes \in 1..FQBudget
    /\ dlqSource \in {"partial", "full"}
    /\ scanK = SmallK
    /\ encSource = "zerocopy"
    /\ recycled = [e \in 1..MaxEvents |-> 0]
    /\ rejectPut = 0
    /\ EventCh = <<>>
    /\ evClosed = FALSE
    /\ uploadCh = <<>>
    /\ upClosed = FALSE
    /\ batch = <<>>
    /\ cpc = "select"
    /\ timer = "armed"
    /\ upc = "select"
    /\ job = <<>>
    /\ replayLeft = 0
    /\ call = NoCall
    /\ cancelled = FALSE
    /\ spc = "idle"
    /\ spc2 = "idle"
    /\ http = Http0
    /\ tc = seed(0)
    /\ dir \in dirs
    /\ dlqSizeBytes = StartupBytes(dir)
    /\ metrics = [Metrics0 EXCEPT !.DLQSizeBytes = StartupBytes(dir),
                                  !.DLQFilesCurrent = StartupCount(dir)]
    /\ objects = {}
    /\ now = 1
    /\ globalCounter = 0
    /\ injected = 0
    /\ hist = Hist0

\* ------------------------------------------------------------ runs of main()
MaxInflight == 2   \* /collect handlers that run at the same time

\* main() has started the Manager of handler.go and the server listens
InitMain ==
    /\ variant = "drain"
    /\ S3AppRetries = 1
    /\ UploadQueue = QueueSlots
    /\ maxPush = FQEvents
    /\ DLQMaxSizeBytes = SizeBudget
    /\ dlqSource = "partial"
    /\ scanK = KScan
    /\ encSource \in {"zerocopy", "copy"}
    /\ diskFaulty = FALSE
    /\ recycled = [e \in 1..MaxEvents |-> 0]
    /\ rejectPut = 0
    /\ EventCh = <<>>
    /\ evClosed = FALSE
    /\ uploadCh = <<>>
    /\ upClosed = FALSE
    /\ batch = <<>>
    /\ cpc = "select"
    /\ timer = "armed"
    /\ upc = "select"
    /\ job = <<>>
    /\ replayLeft = 0
    /\ call = NoCall
    /\ cancelled = FALSE
    /\ spc = "idle"
    /\ spc2 = "idle"
    /\ http = Http0
    /\ tc = seed(0)
    /\ dir = <<>>
    /\ dlqSizeBytes = 0
    /\ metrics = Metrics0
    /\ objects = {}
    /\ now = 1
    /\ globalCounter = 0
    /\ injected = 0
    /\ hist = Hist0

\* the server hands a /collect request to HandleCollect, which runs up to its push
HandlerEnter ==
    /\ http.srv = "serving"
    /\ http.inflight < MaxInflight
    /\ metrics.HTTPRequestsTotal + http.inflight < maxPush
    /\ http' = [http EXCEPT !.inflight = @ + 1]
    /\ UNCHANGED <<cfgVars, tc, poolVars, managerVars, uploaderVars, cancelled, spc, spc2, fqVars,
                   metrics, objects, envVars, globalCounter, hist>>

\* HandleCollect's select: a send on the closed EventCh panics, otherwise the event is
\* accepted or rejected as in Push
HandlerPush ==
    /\ http.inflight > 0
    /\ IF evClosed
       THEN /\ http' = [http EXCEPT !.inflight = @ - 1, !.sentOnClosed = TRUE]
            /\ metrics' = RequestCount(metrics)
            /\ UNCHANGED <<EventCh, rejectPut>>
       ELSE /\ http' = [http EXCEPT !.inflight = @ - 1]
            /\ IF ~ChannelFull
               THEN /\ EventCh' = Append(EventCh, metrics.HTTPRequestsAcceptedTotal + 1)
                    /\ metrics' = AcceptCount(RequestCount(metrics))
                    /\ UNCHANGED rejectPut
               ELSE /\ metrics' = RejectCount(RequestCount(metrics))
                    /\ rejectPut' = rejectPut + 1
                    /\ UNCHANGED EventCh
    /\ UNCHANGED <<cfgVars, tc, recycled, evClosed, uploadCh, upClosed, batch, cpc, timer, uploaderVars,
                   cancelled, spc, spc2, fqVars, objects, envVars, globalCounter, hist>>

\* the signal goroutine receives SIGTERM and calls srv.Shutdown: the listeners are
\* closed and ListenAndServe returns http.ErrServerClosed in main
SignalReceived ==
    /\ http.srv = "serving"
    /\ http' = [http EXCEPT !.srv = "stopping"]
    /\ UNCHANGED <<cfgVars, tc, poolVars, managerVars, uploaderVars, cancelled, spc, spc2, fqVars,
                   metrics, objects, envVars, globalCounter, hist>>

\* srv.Shutdown returns: every handler has finished, or its 15 s context has expired
SrvShutdownReturns ==
    /\ http.srv = "stopping"
    /\ http' = [http EXCEPT !.srv = "stopped"]
    /\ UNCHANGED <<cfgVars, tc, poolVars, managerVars, uploaderVars, cancelled, spc, spc2, fqVars,
                   metrics, objects, envVars, globalCounter, hist>>

\* a mgr.Shutdown() call can begin: main calls it when ListenAndServe has returned,
\* the signal goroutine when srv.Shutdown has returned
ShutdownCalled == http.srv \in {"stopping", "stopped"}

\* the first mgr.Shutdown() call closes EventCh
MainShutdownClose == ShutdownCalled /\ ShutdownClose

NextMain ==
    \/ HandlerEnter
    \/ HandlerPush
    \/ SignalReceived
    \/ SrvShutdownReturns
    \/ MainShutdownClose
    \/ ShutdownReturn
    \/ TimerFire
    \/ CollectRecv
    \/ CollectClosed
    \/ CollectTimer
    \/ CollectFlush
    \/ UploadRecv
    \/ UploadClosed
    \/ UploadTick
    \/ ProcessFinish
    \/ ProcessFinishEncFail
    \/ UpLoop
    \/ UpBackoff
    \/ ReplayStart
    \/ ReplayFinish

SpecMain == InitMain /\ [][NextMain]_vars

\* ------------------------------------------------------------- startup runs
\* what the directory can hold before the process starts: the seeds in any order, a
\* sidecar with or without its data file
RawDirs ==
    {d \in UNION {[1..n -> SeedEntries] : n \in 0..MaxSeed} :
        \A i, j \in 1..Len(d) : (d[i].kind = d[j].kind /\ d[i].name = d[j].name) => i = j}

\* main() is about to call NewDLQManager: nothing is started, every metric is zero
InitStartup ==
    /\ variant = "drain"
    /\ S3AppRetries = 1
    /\ UploadQueue = QueueSlots
    /\ maxPush = FQEvents
    /\ DLQMaxSizeBytes \in 1..FQBudget
    /\ dlqSource \in {"partial", "full"}
    /\ scanK = SmallK
    /\ encSource = "zerocopy"
    /\ diskFaulty = FALSE
    /\ recycled = [e \in 1..MaxEvents |-> 0]
    /\ rejectPut = 0
    /\ EventCh = <<>>
    /\ evClosed = FALSE
    /\ uploadCh = <<>>
    /\ upClosed = FALSE
    /\ batch = <<>>
    /\ cpc = "new"
    /\ timer = "armed"
    /\ upc = "new"
    /\ job = <<>>
    /\ replayLeft = 0
    /\ call = NoCall
    /\ cancelled = FALSE
    /\ spc = "idle"
    /\ spc2 = "idle"
    /\ http = Http0
    /\ tc = seed(0)
    /\ dir \in RawDirs
    /\ dlqSizeBytes = 0
    /\ metrics = Metrics0
    /\ objects = {}
    /\ now = 1
    /\ globalCounter = 0
    /\ injected = 0
    /\ hist = [Hist0 EXCEPT !.raw = dir]

\* NewDLQManager, then Manager.Start
StartupScan ==
    /\ upc = "new"
    /\ LET r == NewDLQManager(dir)
       IN  /\ dir' = r.dir
           /\ dlqSizeBytes' = r.total
           /\ metrics' = [metrics EXCEPT
                  !.DLQSizeBytes = IF r.total > 0 THEN @ + r.total ELSE @,
                  !.DLQFilesCurrent = IF r.count > 0 THEN @ + r.count ELSE @]
    /\ upc' = "select"
    /\ cpc' = "select"
    /\ UNCHANGED <<cfgVars, tc, poolVars, EventCh, evClosed, uploadCh, upClosed, batch, timer,
                   job, replayLeft, call, cancelled, spc, spc2, http, objects, now, globalCounter,
                   injected, hist>>

NextStartup == StartupScan

SpecStartup == InitStartup /\ [][NextStartup]_vars

\* the state StartupScan leaves is a state the failure-queue runs start in
StartedAsSeeded ==
    upc # "new" =>
        /\ dir \in SeedDirs
        /\ dlqSizeBytes = StartupBytes(dir)
        /\ metrics = [Metrics0 EXCEPT !.DLQSizeBytes = StartupBytes(dir),
                                      !.DLQFilesCurrent = StartupCount(dir)]

InitFQ == InitFQOn(SeedDirs) /\ diskFaulty = FALSE

NextFQ ==
    \/ BatchArrives
    \/ Tick
    \/ UploadTick
    \/ ProcessFinish
    \/ ProcessFinishEncFail
    \/ UpLoop
    \/ UpBackoff
    \/ ReplayStart
    \/ ReplayFinish

SpecFQ == InitFQ /\ [][NextFQ]_vars

\* the same runs on a disk whose os.WriteFile can fail
InitFQDisk == InitFQOn(SeedDirs) /\ diskFaulty = TRUE

SpecFQDisk == InitFQDisk /\ [][NextFQ]_vars

\* the upload task keeps running: its ticker fires and every step it can take is taken
FairFQ ==
    /\ WF_vars(UploadTick)
    /\ WF_vars(ReplayStart)
    /\ WF_vars(ReplayFinish)
    /\ WF_vars(UpLoop)
    /\ WF_vars(UpBackoff)
    /\ WF_vars(ProcessFinish)
    /\ WF_vars(ProcessFinishEncFail)

SpecFQLive == InitFQ /\ [][NextFQ]_vars /\ FairFQ

\* ------------------------------------------------------------------ properties
Accepted == 1..metrics.HTTPRequestsAcceptedTotal

\* the objects of the store that hold event e
InObjects(e) == {o \in objects : e \in Range(o.events)}

Delivered(e) == InObjects(e) # {}

\* e is parked in a data file of the DLQ directory
Parked(e) == \E i \in 1..Len(dir) : dir[i].kind = "data" /\ e \in Range(dir[i].events)

\* e is still on its way through the pipeline
InFlight(e) ==
    \/ e \in Range(EventCh)
    \/ e \in Range(batch)
    \/ \E i \in 1..Len(uploadCh) : e \in Range(uploadCh[i])
    \/ e \in Range(job)

\* nothing is in flight, no uploader call runs and nothing is parked
Settled ==
    /\ EventCh = <<>>
    /\ batch = <<>>
    /\ uploadCh = <<>>
    /\ job = <<>>
    /\ call.pc = "idle"
    /\ \A e \in Accepted : ~Parked(e)

\* C1: when Shutdown has returned, every accepted event has been handed to the upload
\* processing exactly once and nothing is left in EventCh, the batch or uploadCh.
C1_DrainLosesNothing ==
    spc = "returned" =>
        /\ \A e \in Accepted : hist.handed[e] = 1
        /\ EventCh = <<>> /\ batch = <<>> /\ uploadCh = <<>> /\ job = <<>>

\* C2: the shared context is cancelled only after EventCh is closed and both loops
\* have exited.
C2_CancelAfterDrain ==
    cancelled => evClosed /\ cpc = "done" /\ upc = "done"

\* C3: without capacity exhaustion (no dropped batch, no evicted file), once the
\* pipeline has settled every accepted event is in exactly one object of the store.
C3_ExactlyOneObject ==
    (Settled /\ hist.droppedEv = {} /\ hist.evictedEv = {}) =>
        \A e \in Accepted : Cardinality(InObjects(e)) = 1

\* C4 (as stated, restricted to the events given to Save): an event that was given to
\* the DLQ and is neither parked nor delivered has been counted as dropped.
C4_OnlyDropsLose ==
    \A e \in hist.savedEv \cup hist.droppedEv :
        (~Parked(e) /\ ~Delivered(e) /\ ~(call.pc # "idle" /\ e \in Range(call.events)))
            => e \in hist.droppedEv

\* C4 (amended): dlq_events_dropped_total counts exactly the events of the batches Save
\* refused; the events of files removed by capacity eviction or by TTL expiry are lost
\* as well, are in no object and are not in that counter; each such file adds one to
\* dlq_files_expired_total.
C4_DropsCounted ==
    /\ metrics.DLQEventsDroppedTotal = Cardinality(hist.droppedEv)
    /\ metrics.DLQFilesExpiredTotal = hist.removedFiles
    /\ \A e \in hist.evictedEv \cup hist.expiredEv :
          ~Delivered(e) /\ ~Parked(e) /\ e \notin hist.droppedEv

\* a batch was refused by Save and a parked file was evicted or expired
C4_Witness ==
    /\ Cardinality(hist.droppedEv) >= 2
    /\ hist.evictedEv \cup hist.expiredEv # {}

\* C5: while collectLoop waits with a non-empty batch its flush timer is armed (or has
\* already fired and waits to be received).
C5_TimerArmed ==
    (cpc = "select" /\ batch # <<>>) => timer \in {"armed", "fired"}

\* C6: every job on uploadCh and in processing holds between 1 and BatchSize events.
C6_JobSize ==
    /\ \A i \in 1..Len(uploadCh) : Len(uploadCh[i]) >= 1 /\ Len(uploadCh[i]) <= BatchSize
    /\ Len(job) <= BatchSize

\* C7: when processUploadCtx resumes after the uploader returned, success adds exactly
\* the batch's event count to s3_events_stored_total and leaves the DLQ alone; failure
\* calls Save exactly once with the batch and leaves s3_events_stored_total alone.
C7_UploadOutcome ==
    [][(upc = "upload" /\ call.pc = "ret" /\ upc' = "replay") =>
          IF call.result = "nil"
          THEN /\ metrics'.S3EventsStoredTotal = metrics.S3EventsStoredTotal + Len(job)
               /\ hist'.saveCalls = hist.saveCalls
               /\ dir' = dir
               /\ metrics'.DLQEventsEnqueuedTotal = metrics.DLQEventsEnqueuedTotal
               /\ metrics'.DLQEventsDroppedTotal = metrics.DLQEventsDroppedTotal
          ELSE /\ hist'.saveCalls = hist.saveCalls + 1
               /\ hist'.savedEv \cup hist'.droppedEv =
                      hist.savedEv \cup hist.droppedEv \cup Range(job)
               /\ metrics'.S3EventsStoredTotal = metrics.S3EventsStoredTotal]_vars

\* both outcomes have happened: a two-event batch was stored, another batch went to Save
C7_Witness ==
    /\ metrics.S3EventsStoredTotal >= 2
    /\ hist.saveCalls >= 1

\* C8: the uploader returns nil exactly when one of its PUT attempts succeeded.
C8_SuccessMeansPut ==
    call.pc = "ret" => (call.result = "nil" <=> call.ok)

C10_Cancellation ==
    /\ [](call.result = "ctx" => cancelled)
    /\ [][(/\ cancelled
           /\ call.pc = "backoff" \/ (call.pc = "loop" /\ LoopCond(call.attempt))
           /\ call' # call)
          => /\ call'.pc = "ret"
             /\ call'.result = "ctx"
             /\ call'.puts = call.puts
             /\ objects' = objects]_vars

\* a call returned the cancellation error after a failed attempt
C10_Witness ==
    call.pc = "ret" /\ call.result = "ctx" /\ call.puts >= 1

C13_RecycledOnce ==
    \A e \in 1..MaxEvents :
        /\ recycled[e] = IF hist.handed[e] >= 1 /\ e \notin Range(job) THEN 1 ELSE 0
        /\ recycled[e] >= 1 =>
              /\ e \notin Range(EventCh)
              /\ e \notin Range(batch)
              /\ \A i \in 1..Len(uploadCh) : e \notin Range(uploadCh[i])

\* recycled events after a successful upload, after a failed upload that went to Save,
\* and after an encoding failure
C13_Witness ==
    /\ \E e \in 1..MaxEvents :
          recycled[e] = 1 /\ e \notin hist.savedEv \cup hist.droppedEv
          /\ \E o \in objects : o.prefix = "raw" /\ e \in Range(o.events)
    /\ \E e \in hist.savedEv \cup hist.droppedEv : recycled[e] = 1
    /\ \E e \in 1..MaxEvents :
          recycled[e] = 1 /\ \E o \in objects : o.prefix = "dlq" /\ e \in Range(o.events)

\* C12 (as stated): once the five requests of the scenario are done, exactly two were
\* accepted and three were rejected.
C12_TwoAccepted ==
    metrics.HTTPRequestsTotal = ScenarioPushes =>
        /\ metrics.HTTPRequestsAcceptedTotal = 2
        /\ metrics.HTTPRequestsRejectedQueueFullTotal = 3

\* C12 (amended): every request is accepted or rejected; the channel never holds more
\* than ChannelSize events; the first ChannelSize requests are accepted; the accepted
\* events are those in the channel, in the batch and in the job the blocked uploader
\* holds, so at most ChannelSize + 2 * BatchSize are accepted.
C12_Backpressure ==
    /\ metrics.HTTPRequestsTotal =
          metrics.HTTPRequestsAcceptedTotal + metrics.HTTPRequestsRejectedQueueFullTotal
    /\ Len(EventCh) <= ChannelSize
    /\ metrics.HTTPRequestsAcceptedTotal >= Min(metrics.HTTPRequestsTotal, ChannelSize)
    /\ metrics.HTTPRequestsAcceptedTotal = Len(EventCh) + Len(batch) + Len(job)
    /\ Len(batch) <= BatchSize
    /\ Len(job) <= BatchSize

\* all five requests of the scenario were accepted
C12_Witness ==
    /\ metrics.HTTPRequestsTotal = ScenarioPushes
    /\ metrics.HTTPRequestsAcceptedTotal = ScenarioPushes
    /\ upc \in {"upload", "encfail"}

\* ------------------------------------------------------------- failure queue
\* the first K entries of the enumeration that are neither sidecars nor dotfiles
FirstK(d) ==
    {d[i].name : i \in {j \in 1..Min(scanK, Len(d)) : d[j].kind \notin {"meta", "hidden"}}}

\* ProcessOneCtx is at its pickOldest call
AtPickOldest == upc = "replay" /\ replayLeft > 0 /\ call.pc = "idle" /\ ~CtxDone

\* C14: every pickOldest call reads at most K directory entries, whatever the size of the
\* directory, and returns the lexicographically smallest name among the entries it read
\* that are neither sidecars nor dotfiles (nothing when there is none).
C14_PickOldest ==
    /\ ~hist.overRead
    /\ AtPickOldest =>
          /\ Len(ScanWindow(dir)) <= scanK
          /\ IF FirstK(dir) = {} THEN pickOldest(dir) = NoName
             ELSE /\ pickOldest(dir) \in FirstK(dir)
                  /\ \A o \in FirstK(dir) : o = pickOldest(dir) \/ NameLess(pickOldest(dir), o)

\* C14 for the pickOldest of part_004 alone
C14_PartialScan == dlqSource = "partial" => C14_PickOldest

\* C14: a call on a directory of more than K entries whose first K entries do not hold
\* the directory's smallest data file
C14_Witness ==
    /\ dlqSource = "partial"
    /\ upc = "replay"
    /\ call.kind = "file"
    /\ Len(dir) > scanK
    /\ \E i \in DataFiles(dir) : i > scanK /\ \A o \in FirstK(dir) : NameLess(dir[i].name, o)

C15_AllReplayed ==
    <>[](DataFiles(dir) = {})

C15_Stalled ==
    /\ dlqSource = "partial"
    /\ upc = "select"
    /\ DataFiles(dir) # {}
    /\ pickOldest(dir) = NoName

C17_DropOnlyWhenEmpty ==
    hist.saveCalls > 0 =>
        /\ ~hist.save.persisted => hist.save.left = 0
        /\ hist.save.size <= DLQMaxSizeBytes => hist.save.persisted

\* C17: a batch that fits the budget was dropped while a data file was left in the directory
C17_DroppedBesideData ==
    /\ hist.saveCalls > 0
    /\ ~hist.save.persisted
    /\ hist.save.size <= DLQMaxSizeBytes
    /\ hist.save.left > 0
    /\ DataFiles(dir) # {}

\* C17: a batch that fits the budget was dropped from an FQ without any data file
C17_DroppedBesideDotfile ==
    /\ hist.saveCalls > 0
    /\ ~hist.save.persisted
    /\ hist.save.size <= DLQMaxSizeBytes
    /\ hist.save.before = 0

\* C18: when capacity cannot be ensured, Save adds exactly numEvents to the dropped-events
\* counter, writes neither a data file nor a sidecar, leaves the enqueued-events counter
\* unchanged and returns without error (processUploadCtx goes on to recycle the events).
C18_DropAccounting ==
    [][(hist'.saveCalls = hist.saveCalls + 1 /\ ~hist'.save.ok) =>
          /\ metrics'.DLQEventsDroppedTotal = metrics.DLQEventsDroppedTotal + Len(job)
          /\ metrics'.DLQEventsEnqueuedTotal = metrics.DLQEventsEnqueuedTotal
          /\ \A i \in 1..Len(dir') : \E j \in 1..Len(dir) : dir'[i] = dir[j]
          /\ globalCounter' = globalCounter
          /\ upc' = "replay"
          /\ recycled' = RecycleEvents(recycled, job)]_vars

\* C18: a batch of two events was dropped
C18_Witness ==
    /\ hist.saveCalls > 0
    /\ ~hist.save.ok
    /\ hist.save.n = 2
    /\ metrics.DLQEventsDroppedTotal = 2
    /\ metrics.DLQEventsEnqueuedTotal = 0

C20_TTLExpiry ==
    [][(AtPickOldest /\ pickOldest(dir) # NoName /\ <<replayLeft, call>>' # <<replayLeft, call>>) =>
          LET name == pickOldest(dir)
              size == DataFile(dir, name).size
          IN  IF DLQMaxAge > 0 /\ name[1] > 0 /\ (now - name[1]) * Second > DLQMaxAge
              THEN /\ dir' = SelectSeq(dir, LAMBDA en : en.name # name)
                   /\ metrics' = [metrics EXCEPT !.DLQSizeBytes = @ - size,
                                                 !.DLQFilesCurrent = @ - 1,
                                                 !.DLQFilesExpiredTotal = @ + 1]
                   /\ dlqSizeBytes' = dlqSizeBytes - size
                   /\ call' = NoCall
                   /\ objects' = objects
              ELSE /\ dir' = dir
                   /\ metrics' = metrics
                   /\ dlqSizeBytes' = dlqSizeBytes
                   /\ call'.kind = "file" /\ call'.name = name]_vars

\* C20: a parked file was removed by the TTL check (no Save ran, so nothing was evicted)
C20_Witness ==
    /\ hist.saveCalls = 0
    /\ metrics.DLQFilesExpiredTotal = 1
    /\ metrics.DLQEventsReuploadedTotal = 0
    /\ objects = {}
    /\ now = 2

\* --------------------------------------------------------------------- replay
\* the FQ-side state a replay call may touch
FQState == <<dir, dlqSizeBytes, metrics.DLQSizeBytes, metrics.DLQFilesCurrent,
             metrics.DLQEventsReuploadedTotal, metrics.DLQFilesExpiredTotal,
             metrics.DLQEventsDroppedTotal, metrics.DLQEventsEnqueuedTotal>>

\* C21: a failed replay changes nothing in the FQ: while the upload of ProcessOneCtx runs
\* and when it returns an error, the data file and the sidecar stay in place, the byte
\* and file-count gauges and the reuploaded / expired / dropped counters keep their
\* values, and the next pickOldest call returns the same file.
C21_FailedReplayFrame ==
    [][(upc = "replay" /\ call.kind = "file" /\ ~(call.pc = "ret" /\ call.result = "nil")) =>
          /\ FQState' = FQState
          /\ (call.pc = "ret" /\ call' = NoCall) => pickOldest(dir') = call.name]_vars

\* C21: a replay failed and returned (no batch has arrived, so the PUT error is its own)
C21_Witness ==
    /\ metrics.HTTPRequestsTotal = 0
    /\ metrics.S3PutErrorsTotal = 1
    /\ call = NoCall
    /\ objects = {}
    /\ DataFiles(dir) # {}
    /\ metrics.DLQFilesCurrent = StartupCount(dir)

\* the sidecars of `name` that hold a usable num_events
GoodMeta(d, name) ==
    {i \in 1..Len(d) : d[i].kind = "meta" /\ d[i].name = name /\ d[i].content = "json"
                        /\ d[i].num > 0}

ReplayUploadStarts == AtPickOldest /\ call'.kind = "file" /\ call'.pc = "loop"

\* the file decompresses as gzip and its first non-empty line is a JSON object
WholeFileValid(f) == f.size > 0 /\ f.content \in {"jsonl", "blankfirst"}

C23_TruncatedAsRaw ==
    /\ upc = "replay"
    /\ call.kind = "file"
    /\ call.prefix = "raw"
    /\ DataFile(dir, call.name).content = "truncated"
SubdirSeeds ==
    {SeedEntry(<<1, 101>>, 1, "jsonl"), MetaEntry(<<1, 101>>, 2), SubdirEntry(<<0, 2>>, 1)}

SubdirDirs ==
    {d \in UNION {[1..n -> SubdirSeeds] : n \in 0..MaxSeed} :
        /\ \A i, j \in 1..Len(d) : d[i] = d[j] => i = j
        /\ \A i \in 1..Len(d) : d[i].kind = "meta" => DataIdx(d, d[i].name) # {}}

InitFQSubdir == InitFQOn(SubdirDirs) /\ diskFaulty = FALSE

SpecFQSubdir == InitFQSubdir /\ [][NextFQ]_vars

\* ------------------------------------------------------------ runs under load
\* the most events NewManager's channels, the batch builder and the upload task hold
InFlightBound == ChannelSize + BatchSize * (UploadQueue + 2)

\* one request more than the pipeline of the Manager with QueueSlots slots can hold
LoadPushes == ChannelSize + BatchSize * (QueueSlots + 2) + 1

\* the Manager of handler.go is started and receives LoadPushes requests; one PUT or
\* encoding of the run can fail
InitLoad ==
    /\ variant = "drain"
    /\ S3AppRetries = 1
    /\ UploadQueue = QueueSlots
    /\ maxPush = LoadPushes
    /\ DLQMaxSizeBytes = SizeBudget
    /\ dlqSource = "partial"
    /\ scanK = KScan
    /\ encSource = "zerocopy"
    /\ diskFaulty = FALSE
    /\ recycled = [e \in 1..MaxEvents |-> 0]
    /\ rejectPut = 0
    /\ EventCh = <<>>
    /\ evClosed = FALSE
    /\ uploadCh = <<>>
    /\ upClosed = FALSE
    /\ batch = <<>>
    /\ cpc = "select"
    /\ timer = "armed"
    /\ upc = "select"
    /\ job = <<>>
    /\ replayLeft = 0
    /\ call = NoCall
    /\ cancelled = FALSE
    /\ spc = "idle"
    /\ spc2 = "idle"
    /\ http = Http0
    /\ tc = seed(0)
    /\ dir = <<>>
    /\ dlqSizeBytes = 0
    /\ metrics = Metrics0
    /\ objects = {}
    /\ now = 1
    /\ globalCounter = 0
    /\ injected = MaxFail - 1
    /\ hist = Hist0

NextLoad ==
    \/ Push
    \/ TimerFire
    \/ CollectRecv
    \/ CollectTimer
    \/ CollectFlush
    \/ UploadRecv
    \/ UploadTick
    \/ ProcessFinish
    \/ ProcessFinishEncFail
    \/ UpLoop
    \/ UpBackoff
    \/ ReplayStart
    \/ ReplayFinish

SpecLoad == InitLoad /\ [][NextLoad]_vars

\* ------------------------------------------------------------ time cache runs
MaxRefresh == 3   \* update() calls of a run
MaxKeys == 2      \* BuildS3Key calls of a run

\* the process starts at any hour of the day
InitTime ==
    /\ variant = "drain"
    /\ S3AppRetries = 1
    /\ UploadQueue = QueueSlots
    /\ maxPush = MaxEvents
    /\ DLQMaxSizeBytes = SizeBudget
    /\ dlqSource = "partial"
    /\ scanK = KScan
    /\ encSource = "zerocopy"
    /\ diskFaulty = FALSE
    /\ recycled = [e \in 1..MaxEvents |-> 0]
    /\ rejectPut = 0
    /\ EventCh = <<>>
    /\ evClosed = FALSE
    /\ uploadCh = <<>>
    /\ upClosed = FALSE
    /\ batch = <<>>
    /\ cpc = "select"
    /\ timer = "armed"
    /\ upc = "select"
    /\ job = <<>>
    /\ replayLeft = 0
    /\ call = NoCall
    /\ cancelled = FALSE
    /\ spc = "idle"
    /\ spc2 = "idle"
    /\ http = Http0
    /\ tc \in {seed(t) : t \in 0..(HoursPerDay - 1)}
    /\ dir = <<>>
    /\ dlqSizeBytes = 0
    /\ metrics = Metrics0
    /\ objects = {}
    /\ now = 1
    /\ globalCounter = 0
    /\ injected = 0
    /\ hist = Hist0

TimeUnchanged ==
    UNCHANGED <<cfgVars, poolVars, managerVars, uploaderVars, cancelled, spc, spc2, http, fqVars,
                metrics, objects, envVars, globalCounter, hist>>

\* update(): now := time.Now(); kst := now.Add(kstOffset).  The ticker fired a second
\* after the last refresh, within the same hour or in the next one
updateNow ==
    /\ tc.pc = "idle"
    /\ tc.n < MaxRefresh
    /\ \E adv \in {0, 1} : tc' = [tc EXCEPT !.wall = @ + adv, !.n = @ + 1, !.pc = "dt"]
    /\ TimeUnchanged

\* update(): dtVal.Store(kst.Format("2006-01-02"))
updateStoreDT ==
    /\ tc.pc = "dt"
    /\ tc' = [tc EXCEPT !.dtVal = [by |-> tc.n, v |-> FormatDate(tc.wall)], !.pc = "hr"]
    /\ TimeUnchanged

\* update(): hrVal.Store(kst.Format("15"))
updateStoreHR ==
    /\ tc.pc = "hr"
    /\ tc' = [tc EXCEPT !.hrVal = [by |-> tc.n, v |-> FormatHour(tc.wall)], !.pc = "idle"]
    /\ TimeUnchanged

\* BuildS3Key: the argument DT() of fmt.Sprintf is evaluated
BuildS3KeyDT ==
    /\ tc.kpc = "idle"
    /\ tc.keys < MaxKeys
    /\ tc' = [tc EXCEPT !.kdt = tc.dtVal, !.kpc = "dt"]
    /\ TimeUnchanged

\* BuildS3Key: the argument HR() is evaluated and the key is formatted
BuildS3KeyHR ==
    /\ tc.kpc = "dt"
    /\ tc' = [tc EXCEPT !.key = [dt |-> tc.kdt, hr |-> tc.hrVal], !.keys = @ + 1,
                        !.kpc = "idle"]
    /\ TimeUnchanged

NextTime ==
    \/ updateNow
    \/ updateStoreDT
    \/ updateStoreHR
    \/ BuildS3KeyDT
    \/ BuildS3KeyHR

SpecTime == InitTime /\ [][NextTime]_vars

\* ------------------------------------------------------------ filename runs
MaxNames  == 5   \* NewFilename calls that are followed
WrapStart == 3   \* the counter starts at 0 or up to WrapStart calls before it wraps

\* the process has made some number of NewFilename calls before
InitNames ==
    /\ variant = "drain"
    /\ S3AppRetries = 1
    /\ UploadQueue = QueueSlots
    /\ maxPush = FQEvents
    /\ DLQMaxSizeBytes = SizeBudget
    /\ dlqSource = "partial"
    /\ scanK = KScan
    /\ encSource = "zerocopy"
    /\ diskFaulty = FALSE
    /\ recycled = [e \in 1..MaxEvents |-> 0]
    /\ rejectPut = 0
    /\ EventCh = <<>>
    /\ evClosed = FALSE
    /\ uploadCh = <<>>
    /\ upClosed = FALSE
    /\ batch = <<>>
    /\ cpc = "select"
    /\ timer = "armed"
    /\ upc = "select"
    /\ job = <<>>
    /\ replayLeft = 0
    /\ call = NoCall
    /\ cancelled = FALSE
    /\ spc = "idle"
    /\ spc2 = "idle"
    /\ http = Http0
    /\ tc = seed(0)
    /\ dir = <<>>
    /\ dlqSizeBytes = 0
    /\ metrics = Metrics0
    /\ objects = {}
    /\ now = 1
    /\ globalCounter \in {0} \cup {CounterMod - k : k \in 1..WrapStart}
    /\ injected = 0
    /\ hist = Hist0

\* one NewFilename call of the upload task: sec := Unix(); c := NextCounter()
NameCall ==
    /\ Len(hist.names) < MaxNames
    /\ globalCounter' = globalCounter + 1
    /\ hist' = [hist EXCEPT !.names = Append(@, NewFilename(now, globalCounter))]
    /\ UNCHANGED <<cfgVars, tc, poolVars, managerVars, uploaderVars, cancelled, spc, spc2, http, fqVars, metrics,
                   objects, injected, now>>

NextNames ==
    \/ NameCall
    \/ Tick

SpecNames == InitNames /\ [][NextNames]_vars

\* the monotonic counters of metrics.go: every field but the two gauges
CounterNames == DOMAIN Metrics0 \ {"DLQFilesCurrent", "DLQSizeBytes"}

\* C25: in every reachable state the two gauges (parked files, parked bytes) are not
\* negative, and no step lowers any other counter.
C25_GaugesAndCounters ==
    /\ [](metrics.DLQFilesCurrent >= 0 /\ metrics.DLQSizeBytes >= 0)
    /\ [][\A k \in CounterNames : metrics'[k] >= metrics[k]]_vars

\* C26: the names NewFilename returned so far are strictly increasing in sort order, in
\* the order of the calls; in particular no name was returned twice.
C26_NamesIncrease ==
    \A i, j \in 1..Len(hist.names) : i < j => NameLess(hist.names[i], hist.names[j])

\* C26 holds when the counter does not wrap between two calls of one cached second
C26_IncreaseWithoutWrap ==
    \A i, j \in 1..Len(hist.names) :
        (i < j /\ ~(hist.names[i][1] = hist.names[j][1] /\ hist.names[j][2] < hist.names[i][2]))
            => NameLess(hist.names[i], hist.names[j])

\* C26: two calls of one cached second on either side of the wrap
C26_WrapInOneSecond ==
    \E i \in 1..Len(hist.names) - 1 :
        /\ hist.names[i][1] = hist.names[i + 1][1]
        /\ hist.names[i][2] = CounterMod - 1
        /\ hist.names[i + 1][2] = 0

\* C27: with two Shutdown calls, no call panics on a closed EventCh (the channel is
\* closed once), and a call has returned only when both loops have exited and EventCh
\* and uploadCh are closed.
C27_ShutdownIdempotent ==
    /\ spc # "panic" /\ spc2 # "panic"
    /\ (spc = "returned" \/ spc2 = "returned") =>
           /\ cpc = "done" /\ upc = "done"
           /\ evClosed /\ upClosed

\* C27: both calls have returned after a pipeline that carried events
C27_Witness ==
    /\ spc = "returned" /\ spc2 = "returned"
    /\ metrics.HTTPRequestsAcceptedTotal > 0

\* C27: the two calls wait side by side while the loops still run
C27_BothWaiting ==
    /\ spc = "waiting" /\ spc2 = "waiting"
    /\ cpc # "done"

\* a ProcessOneCtx call takes a parked file: it expires it or starts its upload
ReplayTakesFile ==
    /\ upc = "replay"
    /\ call.pc = "idle"
    /\ dir' # dir \/ call'.kind = "file"

\* processUploadCtx returned and the upload task goes on to ProcessOneCtx calls
JobStartsRound == upc \in {"upload", "encfail"} /\ upc' = "replay"

\* C28: parked files are replayed only on the idle tick and one at a time: when the
\* processing of a job is over, the upload task does not go on to replay a parked file,
\* and in one round of ProcessOneCtx calls only the first call takes a file.
C28_IdleTickOneFile ==
    [][/\ JobStartsRound => (pickOldest(dir') = NoName \/ cancelled)
       /\ ReplayTakesFile => replayLeft = ReplayPerRound]_vars

\* C28, first half alone: no round of ProcessOneCtx calls after a job
C28_NoReplayAfterJob == [][~JobStartsRound]_vars

\* C28, second half alone: one file per round
C28_OneFilePerRound == [][ReplayTakesFile => replayLeft = ReplayPerRound]_vars

\* C28: a later call of a round is uploading a second parked file
C28_SecondFileInRound ==
    upc = "replay" /\ call.kind = "file" /\ replayLeft < ReplayPerRound

\* Shutdown has closed EventCh and has not returned
ShutdownRunning == evClosed /\ spc # "returned"

\* a step of a ProcessOneCtx call that takes, uploads or removes a parked file
ReplayActs ==
    /\ upc = "replay"
    /\ ReplayTakesFile \/ dir' # dir \/ objects' # objects

\* C29: from the close of EventCh until Shutdown returns, no ProcessOneCtx call takes,
\* uploads, expires or deletes a parked file.
C29_NoReplayInShutdown == [][ShutdownRunning => ~ReplayActs]_vars

\* C29 for the Manager of manager.go alone
C29_LegacyNoReplayInShutdown ==
    [][(variant = "legacy" /\ ShutdownRunning) => ~ReplayActs]_vars

\* C29 for calls that begin during shutdown, Manager of manager.go
C29_LegacyNoReplayStarts ==
    [][(variant = "legacy" /\ ShutdownRunning) => ~ReplayTakesFile]_vars

\* C29: during shutdown a parked file is being uploaded by ProcessOneCtx
C29_ReplayInShutdown ==
    /\ ShutdownRunning
    /\ variant = "drain"
    /\ upc = "replay" /\ call.kind = "file" /\ call.pc = "ret" /\ call.result = "nil"

\* what C30 says of a state: uploadCh is closed only when collectLoop has returned with
\* EventCh closed and emptied and no batch left, and uploadLoop has returned only when
\* no job is left in uploadCh
ClosedAfterDrain ==
    /\ upClosed => (cpc = "done" /\ evClosed /\ EventCh = <<>> /\ batch = <<>>)
    /\ upc = "done" => uploadCh = <<>>

\* what C30 says of a step: uploadCh is closed by collectLoop's return, and a job is
\* appended to uploadCh only while it is open
ClosedByCollect ==
    /\ (upClosed' /\ ~upClosed) => (cpc = "flushExit" /\ cpc' = "done")
    /\ Len(uploadCh') > Len(uploadCh) => ~upClosed

\* C30: uploadCh is closed only by collectLoop and only after collectLoop has received
\* every event of the closed EventCh and has sent its last batch; nothing is sent on the
\* closed uploadCh; uploadLoop returns only after it has received every job sent.
C30_CloseAfterDrain == []ClosedAfterDrain /\ [][ClosedByCollect]_vars

\* C30 for the Manager of handler.go alone
C30_DrainCloseAfterDrain ==
    /\ [](variant = "drain" => ClosedAfterDrain)
    /\ [][variant = "drain" => ClosedByCollect]_vars

\* C30: uploadLoop has returned and left a job in uploadCh
C30_JobLeftBehind == upc = "done" /\ uploadCh # <<>>

\* C30: uploadCh was closed with events still in EventCh
C30_ClosedBeforeDrain == upClosed /\ EventCh # <<>>

\* C31: no /collect handler sends on the closed EventCh: when EventCh is closed, no
\* handler is still before its push, and no push has met the closed channel.
C31_NoSendOnClosed ==
    /\ ~http.sentOnClosed
    /\ evClosed => http.inflight = 0

\* C31: EventCh was closed by main's Shutdown call while srv.Shutdown still waits for a
\* handler, and that handler's push has met the closed channel
C31_SentOnClosed ==
    /\ http.sentOnClosed
    /\ http.srv = "stopping"

\* C31: the same after srv.Shutdown gave up waiting
C31_SentAfterTimeout ==
    /\ http.sentOnClosed
    /\ http.srv = "stopped"

\* the FQ side of the state: directory, internal size, gauges
FQUntouched ==
    /\ dir' = dir
    /\ dlqSizeBytes' = dlqSizeBytes
    /\ metrics'.DLQSizeBytes = metrics.DLQSizeBytes
    /\ metrics'.DLQFilesCurrent = metrics.DLQFilesCurrent

BetweenJobs == upc \in {"select", "replay", "done"}

\* C33: every buffer of a successful encode is released to the pool exactly once by
\* processUpload, after the upload and any Save finished with it; the buffer of a failed
\* encode is released exactly once by the encoder: so the encoder released as many
\* buffers as encodes failed, never one while the upload still reads it, and between
\* two jobs processUpload released as many as encodes succeeded
C33_BufferReleasedOnce ==
    /\ hist.buf.putEnc = hist.buf.encFails
    /\ BetweenJobs => hist.buf.putProc = hist.buf.got - hist.buf.encFails

\* a job of the zero-copy encoder is finished and its buffer was released by nobody
C33_NeverReleased ==
    /\ encSource = "zerocopy"
    /\ BetweenJobs
    /\ hist.buf.got > hist.buf.encFails
    /\ hist.buf.putEnc + hist.buf.putProc < hist.buf.got

\* the copying encoder released the buffer itself, before the upload started
C33_ReleasedByEncoder ==
    /\ encSource = "copy"
    /\ upc = "upload"
    /\ hist.buf.putEnc > hist.buf.encFails


\* the events of a sequence of jobs, in the order of the jobs
RECURSIVE Flatten(_)
Flatten(jobs) == IF jobs = <<>> THEN <<>> ELSE Head(jobs) \o Flatten(Tail(jobs))

\* C34: with the Manager of handler.go every event received from EventCh is in exactly
\* one upload job, the jobs in the order sent and processed hold the events in the order
\* received (events are numbered in the order EventCh receives them), and a job that was
\* sent is not changed by the batch builder: uploadCh only loses its head or gains a tail,
\* and no step of the collect task changes the job being processed
C34_OrderPreserved ==
    /\ [](variant = "drain" =>
            /\ hist.order \o Flatten(uploadCh) \o batch \o EventCh
                  = [i \in 1..metrics.HTTPRequestsAcceptedTotal |-> i]
            /\ \A e \in 1..MaxEvents : hist.handed[e] <= 1
            /\ (upc = "done" => \A e \in 1..metrics.HTTPRequestsAcceptedTotal :
                                    hist.handed[e] = 1))
    /\ [][variant = "drain" =>
            /\ \/ uploadCh' = uploadCh
               \/ uploadCh # <<>> /\ uploadCh' = Tail(uploadCh) /\ job' = Head(uploadCh)
               \/ uploadCh' = Append(uploadCh, batch) /\ batch # <<>>
            /\ (batch' # batch \/ cpc' # cpc) => job' = job]_vars

\* three events went through two or more jobs and were processed in the order received
C34_Witness ==
    /\ variant = "drain"
    /\ upc = "done"
    /\ hist.order = <<1, 2, 3>>
    /\ metrics.S3EventsStoredTotal + metrics.DLQEventsEnqueuedTotal >= 3


\* names of the data files of a directory
DataNames(d) == {d[i].name : i \in DataFiles(d)}

\* a step of the upload task
UploadTaskStep == <<uploaderVars, dir>>' # <<uploaderVars, dir>>

\* C35: a round of ProcessOneCtx calls starts with three calls to make, every return of
\* a call leaves one call less and the task is back at its select after the third; one
\* call takes one file: the step that starts it removes at most one data file and then
\* has returned, or starts the upload of one file, and the step that ends it removes no
\* other file than the one it uploaded; no call runs before processUploadCtx returned
C35_ThreeReplaysPerRound ==
    /\ [](upc = "replay" =>
            /\ replayLeft \in 1..3
            /\ job = <<>>
            /\ call.kind \in {"none", "file"})
    /\ [][
         /\ (upc # "replay" /\ upc' = "replay") =>
               (/\ replayLeft' = 3
                /\ call'.pc = "idle"
                /\ upc = "select" \/ call.pc = "ret")
         /\ (upc = "replay" /\ call.pc = "idle" /\ UploadTaskStep) =>
               (\/ /\ call'.kind = "file"
                   /\ call'.name \in DataNames(dir)
                   /\ dir' = dir /\ replayLeft' = replayLeft /\ upc' = "replay"
                \/ /\ call' = call
                   /\ Cardinality(DataNames(dir) \ DataNames(dir')) <= 1
                   /\ replayLeft' < replayLeft)
         /\ (upc = "replay" /\ call.pc = "ret" /\ UploadTaskStep) =>
               (/\ DataNames(dir) \ DataNames(dir') \subseteq {call.name}
                /\ replayLeft' = replayLeft - 1
                /\ call'.pc = "idle")
         /\ (upc = "replay" /\ upc' # "replay") => (upc' = "select" /\ replayLeft' = 0)
       ]_vars

\* the third call of a round uploads a parked file while another one is waiting
C35_Witness ==
    /\ upc = "replay"
    /\ replayLeft = 1
    /\ call.kind = "file"
    /\ Cardinality(DataNames(dir) \ {call.name}) >= 1
    /\ pickOldest(RemoveBoth(dir, call.name)) # NoName


\* a Save call returned the error of os.WriteFile in this step
SaveFailed == hist'.writeErrs = hist.writeErrs + 1

\* C36: a Save that fails at the write of its data file leaves no new data file and no
\* new sidecar in the directory, leaves the size and file gauges where its evictions put
\* them (they move with the data files only) and leaves the enqueued and dropped
\* counters unchanged
C36_FailedSaveLeavesNothing ==
    [][SaveFailed =>
          /\ Range(dir') \subseteq Range(dir)
          /\ metrics'.DLQSizeBytes - metrics.DLQSizeBytes = DataBytes(dir') - DataBytes(dir)
          /\ metrics'.DLQFilesCurrent - metrics.DLQFilesCurrent
                = Cardinality(DataFiles(dir')) - Cardinality(DataFiles(dir))
          /\ dlqSizeBytes' - dlqSizeBytes = DataBytes(dir') - DataBytes(dir)
          /\ metrics'.DLQEventsEnqueuedTotal = metrics.DLQEventsEnqueuedTotal
          /\ metrics'.DLQEventsDroppedTotal = metrics.DLQEventsDroppedTotal]_vars

\* the part of a data file that a failed write left is being replayed under the raw
\* prefix, as a complete batch
C36_PartialReplayed ==
    /\ upc = "replay"
    /\ call.kind = "file"
    /\ call.prefix = "raw"
    /\ call.name \in hist.partial
    /\ DataFile(dir, call.name).content = "truncated"
    /\ DataFile(dir, call.name).size < Len(DataFile(dir, call.name).events)

\* the gauges fell below zero after the replay of a file that was never counted
C36_GaugeBelowZero ==
    /\ hist.writeErrs > 0
    /\ metrics.DLQFilesCurrent < 0


\* C37: the size gauge, the manager's own dlqSizeBytes and the bytes of the data files
\* in the directory are equal, and the file gauge is the number of data files there,
\* from NewDLQManager on and after every Save, eviction, expiry and replay
C37_GaugeConsistency ==
    /\ metrics.DLQSizeBytes = dlqSizeBytes
    /\ dlqSizeBytes = DataBytes(dir)
    /\ metrics.DLQFilesCurrent = Cardinality(DataFiles(dir))

\* the manager has replayed or expired every data file and the gauges still count the
\* dotfile that NewDLQManager added to them
C37_DotfileCounted ==
    /\ DataFiles(dir) = {}
    /\ \E i \in 1..Len(dir) : dir[i].kind = "hidden"
    /\ metrics.DLQFilesCurrent = 1
    /\ metrics.DLQSizeBytes > 0
    /\ hist.removedFiles > 0 \/ metrics.DLQEventsReuploadedTotal > 0


\* accepted events whose processUploadCtx has not returned
Unfinished ==
    metrics.HTTPRequestsAcceptedTotal
      - (metrics.S3EventsStoredTotal + metrics.DLQEventsEnqueuedTotal
           + metrics.DLQEventsDroppedTotal)

\* C38: the accepted events that have not finished processUploadCtx are never more than
\* ChannelSize + BatchSize * (UploadQueue + 2): at most ChannelSize in EventCh, BatchSize
\* in the batch (also while its send blocks), UploadQueue jobs of at most BatchSize
\* events in uploadCh and one such job in the upload task, and they are nowhere else
C38_BoundedInFlight ==
    /\ Unfinished <= InFlightBound
    /\ Len(EventCh) <= ChannelSize
    /\ Len(batch) <= BatchSize
    /\ Len(uploadCh) <= UploadQueue
    /\ \A i \in 1..Len(uploadCh) : Len(uploadCh[i]) <= BatchSize
    /\ Len(job) <= BatchSize
    /\ Unfinished = Len(EventCh) + Len(batch) + Len(Flatten(uploadCh)) + Len(job)

\* every stage is full and a further request was turned away
C38_Witness ==
    /\ Unfinished = InFlightBound
    /\ upc = "upload"
    /\ cpc = "flush"
    /\ metrics.HTTPRequestsRejectedQueueFullTotal > 0


\* a Save call of this step was given a batch larger than the whole byte budget
OversizeSave ==
    /\ hist'.saveCalls = hist.saveCalls + 1
    /\ DLQMaxSizeBytes > 0
    /\ Len(job) > DLQMaxSizeBytes

C40_KeyFromOneRefresh ==
    tc.keys > 0 => tc.key.dt.by = tc.key.hr.by

\* a key pairs the date of the new day with the last hour of the day before: DT() read
\* what update had just stored, HR() what the refresh before had stored
C40_NewDateOldHour ==
    /\ tc.keys > 0
    /\ tc.key.dt.by = tc.key.hr.by + 1
    /\ tc.key.hr.v = HoursPerDay - 1
    /\ tc.key.dt.v = FormatDate(tc.wall)
    /\ FormatHour(tc.wall) = 0

\* a key pairs the date of the old day with the first hour of the new one: a whole
\* update ran between DT() and HR()
C40_OldDateNewHour ==
    /\ tc.keys > 0
    /\ tc.key.dt.by < tc.key.hr.by
    /\ tc.key.hr.v = 0
    /\ tc.key.dt.v + 1 = FormatDate(tc.wall)
    /\ tc.pc = "idle"

====
